---- MODULE Spec2Model ----
(***************************************************************************)
(* Model of GentooUI: the installation orchestrator                        *)
(* (src/src/gentooui/core/installer.py, class InstallationManager), the    *)
(* wizard of the application (src/src/gentooui/core/app.py, class          *)
(* GentooUIApp), the command runner (src/src/gentooui/utils/system.py,     *)
(* run_command), the entry point with the system checks it makes           *)
(* (src/src/gentooui/main.py, utils/system.py) and the configuration       *)
(* manager (src/src/gentooui/core/config.py, class ConfigManager).  Each   *)
(* has its own specification: Spec and SpecGate for the orchestrator,      *)
(* SpecWizard and SpecApp for the wizard, SpecCmd for the command runner,  *)
(* SpecMain for the entry point, SpecConfig for the configuration manager, *)
(* SpecSession for the entry point with the wizard it starts, SpecOverlap  *)
(* for overlapping invocations of run_full_installation and SpecDisk for   *)
(* run_disk_setup.                                                         *)
(*                                                                         *)
(* run_full_installation is a coroutine on a single asyncio task: it only  *)
(* gives up control while it awaits a stage operation.  The variable pc is *)
(* the coroutine's position; other callers (set_progress_callback) act     *)
(* only while the coroutine is not running or is suspended in a stage.     *)
(*                                                                         *)
(* Exceptions are values of class Exception.  KeyboardInterrupt,           *)
(* SystemExit and asyncio.CancelledError derive from BaseException only,   *)
(* are not matched by "except Exception" and are handled by main.          *)
(***************************************************************************)
EXTENDS Integers, Sequences, FiniteSets, TLC

(***************************************************************************)
(* Bounds of the model.                                                    *)
(***************************************************************************)
MaxStages == 3      \* longest stage list explored
MaxForward == 1     \* progress events the stages of one run forward
MaxSinks == 2       \* callbacks registered on one manager, one after another
MaxRuns == 2        \* invocations of run_full_installation that may overlap

(***************************************************************************)
(* Values.                                                                 *)
(***************************************************************************)
None == "None"
NoStep == 0         \* current_step is None: no stage identifier
NoSink == 0         \* progress_callback is None: no callback registered
True == "True"
False == "False"
\* The callbacks, numbered in the order in which they are registered.
Sinks == 1..MaxSinks

\* What a stage executor does when awaited.
Outcomes == {"true", "false", "raise"}

\* Messages of the exceptions a stage executor and a sink raise.
StageFault == "stage fault"
SinkFault == "sink fault"

\* Progress is kept in hundredths: 0 is 0.0, 100 is 1.0.  A stage forwards
\* values strictly between them, such as the 0.9 of run_disk_setup.
ForwardProgress == {90}

NoError == <<>>

\* validate_prerequisites ends by raising instead of returning.
Raised == "Raised"

\* What the mount point can be: no such path, an empty directory, a
\* directory with entries, or a path whose entries cannot be listed (a
\* regular file, a directory without read permission).
MountStates == {"missing", "empty", "nonempty", "unlistable"}

VARIABLES
    steps,              \* self.steps: the ordered stage list; steps[k] is
                        \* what the executor of stage k does when awaited
    guarded,            \* the stage operations are the built-in run_*
                        \* operations, which wrap the executor in
                        \* "try ... except Exception: return False"
    progress_callback,  \* self.progress_callback: None or a sink
    current_step,       \* self.current_step: None or a stage identifier
    pc,                 \* position of the run_full_installation coroutine
    i,                  \* loop index of the for statement (1-based)
    result,             \* return value of the last finished call, or None
    events,             \* _report_progress calls of the current run
    calls_log,          \* stage operations invoked / returned in this run
    fwd,                \* events forwarded by the stages of this run
    prereq              \* the last call of validate_prerequisites, as a
                        \* sequence of at most one record: what the
                        \* configuration and the system oracles held, which
                        \* oracles were consulted, and how the call ended;
                        \* empty before the first call

gate_vars == <<prereq>>

\* GentooUIApp (src/src/gentooui/core/app.py).  Its current_step is the
\* wizard index; the orchestrator's current_step above is another
\* attribute of another object.
VARIABLES
    app_current_step,       \* GentooUIApp.current_step = reactive(0)
    total_steps,            \* GentooUIApp.total_steps = reactive(7)
    installation_active,    \* GentooUIApp.installation_active
    dry_run_mode,           \* GentooUIApp.dry_run_mode
    screen,                 \* the screen mounted in #content-area
    status_text,            \* the text of #status-text
    exited                  \* App.exit() was called

app_vars == <<app_current_step, total_steps, installation_active,
              dry_run_mode, screen, status_text, exited>>

\* run_command (src/src/gentooui/utils/system.py) and the process it spawns.
VARIABLES
    cmd_pc,         \* position of the run_command coroutine
    cmd_timeout,    \* the timeout argument of the call: given or None
    capture_output, \* the capture_output argument of the call
    proc,           \* the spawned process, as asyncio sees it
    returncode,     \* exit status of the process once it has ended, as a
                    \* sequence of at most one integer
    pipes,          \* what the process wrote: <<stdout bytes, stderr bytes>>
    spawned,        \* processes spawned by the calls so far
    expiry,         \* what the process was doing when the timeout of the
                    \* call expired; NoProcess while it has not expired
    cmd_result      \* how the last call ended, as a sequence of at most one
                    \* record: the triple returned, or the exception raised

cmd_vars == <<cmd_pc, cmd_timeout, capture_output, proc, returncode, pipes,
              spawned, expiry, cmd_result>>

\* The entry point (main.py) and what it asks of the system it runs on
\* (utils/system.py): the position in main, the parsed command line, the
\* exit status of the process, the parts of main that were started, what
\* ended it; the effective user, platform.system(), platform.machine(),
\* psutil.virtual_memory().total, whether "which" can be run, the required
\* tools found on the PATH, and what check_system_compatibility answered.
VARIABLES main_pc, argv, exit_status, started, fault, euid, platform_system,
          machine, memory_total, which_installed, on_path, compat,
          app_config      \* the configuration main has loaded, if any

main_vars == <<main_pc, argv, exit_status, started, fault, euid,
               platform_system, machine, memory_total, which_installed,
               on_path, compat, app_config>>

\* core/config.py: a configuration object, the raw data handed to
\* validate_config or merge_configs, the YAML file at the path used by
\* save_config and load_config, the operation called last, what it
\* returned (a sequence of at most one configuration) and what it raised.
VARIABLES config, config_data, config_file, config_op, loaded, config_error

config_vars == <<config, config_data, config_file, config_op, loaded,
                 config_error>>

\* Invocations of run_full_installation on one manager that are allowed
\* to overlap: for each, the position of its coroutine, its loop index and
\* what it returned.
VARIABLES runs

overlap_vars == <<runs>>

\* A call of run_disk_setup: the position of its coroutine (0 not called,
\* n in 1..4 awaiting sub-operation n, 5 returned), what each of the four
\* sub-operations of the disk manager does when awaited, the progress
\* events, sub-operation calls and their ends so far, and what the call
\* returned.
VARIABLES disk_pc, sub_outcomes, disk_log, disk_result

disk_vars == <<disk_pc, sub_outcomes, disk_log, disk_result>>

util_vars == <<main_vars, config_vars, overlap_vars, disk_vars>>

vars == <<steps, guarded, progress_callback, current_step, pc, i, result,
          events, calls_log, fwd, gate_vars, app_vars, cmd_vars, util_vars>>

\* Identifier and display name of the stage at position k
\* (InstallationStep members are pairwise distinct).
StepId(k) == k
StepName(k) == k

\* Mutant of StepProgress: registering a callback adds it to a list, and
\* the event is handed to the first callback of the list, not the latest.
StepProgress_FirstRegistered(step, name, progress, status, error, raised) ==
    [step |-> step, name |-> name, progress |-> progress, status |-> status,
     error |-> error,
     sink |-> IF progress_callback = NoSink THEN NoSink ELSE 1,
     raised |-> raised]

(***************************************************************************)
(* _report_progress: builds a StepProgress and hands it to the callback,   *)
(* if one is set.  The record keeps what was passed, which sink got it     *)
(* (NoSink: dropped) and whether the sink raised.                           *)
(***************************************************************************)
StepProgress(step, name, progress, status, error, raised) ==
    [step |-> step, name |-> name, progress |-> progress, status |-> status,
     error |-> error, sink |-> progress_callback, raised |-> raised]

\* Mutant of SinkOutcomes: _report_progress calls self.progress_callback
\* without looking whether one is registered, and calling None raises.
SinkOutcomes_Unchecked == {FALSE, TRUE}

\* The outcomes a call of the callback can have: it returns, or it raises.
\* Without a callback nothing is called and nothing can raise.
SinkOutcomes == IF progress_callback # NoSink THEN {FALSE, TRUE} ELSE {FALSE}

(***************************************************************************)
(* GentooUIApp.__init__ and the class attributes: the application before   *)
(* it is mounted.  No screen is shown yet; compose() will put "Ready" in   *)
(* the status bar.  In the specifications of the orchestrator alone the    *)
(* application stays as constructed, without the dry-run flag.             *)
(***************************************************************************)
TotalSteps == 7
NoScreen == "no screen"

\* self.steps: the keys of the wizard's steps, in order.
app_steps ==
    <<"welcome", "disk_setup", "stage3", "configuration", "kernel",
      "bootloader", "finalization">>

AppInit(dry_run) ==
    /\ app_current_step = 0
    /\ total_steps = TotalSteps
    /\ installation_active = FALSE
    /\ dry_run_mode = dry_run
    /\ screen = NoScreen
    /\ status_text = "Ready"
    /\ exited = FALSE

AppConstructed == AppInit(FALSE)

(***************************************************************************)
(* No command has been run.                                                *)
(***************************************************************************)
NoTimeout == "None"
NoProcess == "no process"

CmdIdle ==
    /\ cmd_pc = "idle"
    /\ cmd_timeout = NoTimeout
    /\ capture_output = TRUE
    /\ proc = NoProcess
    /\ returncode = <<>>
    /\ pipes = << <<>>, <<>> >>
    /\ spawned = 0
    /\ expiry = NoProcess
    /\ cmd_result = <<>>

(***************************************************************************)
(* main has not been entered; the system is a Linux machine, as root, with *)
(* every required tool installed.                                          *)
(***************************************************************************)
required_tools == {"fdisk", "mkfs.ext4", "mount", "wget", "tar", "chroot"}
NoArgv == [config |-> FALSE, dry_run |-> FALSE, skip_checks |-> FALSE,
           usage |-> TRUE]
NoFault == [phase |-> "none", kind |-> "none"]

MainIdle ==
    /\ main_pc = "not started"
    /\ argv = NoArgv
    /\ exit_status = <<>>
    /\ started = {}
    /\ fault = NoFault
    /\ compat = <<>>
    /\ app_config = <<>>

(***************************************************************************)
(* core/config.py: the dataclasses with their defaults.  Of the sections,  *)
(* disk stands for those AppConfigSchema declares (disk, stage3, portage)  *)
(* and system for those it does not (kernel, bootloader, system, network). *)
(***************************************************************************)
DiskConfig ==
    [target_disk |-> "/dev/sda", partition_scheme |-> "gpt",
     root_filesystem |-> "ext4"]
SystemConfig == [hostname |-> "gentoo"]
AppConfig ==
    [dry_run |-> FALSE, log_level |-> "INFO", disk |-> DiskConfig,
     system |-> SystemConfig]

EmptyDict == [k \in {} |-> TRUE]
EmptyFile == <<>>

ConfigIdle ==
    /\ config = AppConfig
    /\ config_data = EmptyDict
    /\ config_file = EmptyFile
    /\ config_op = "none"
    /\ loaded = <<>>
    /\ config_error = "none"

(***************************************************************************)
(* No invocation has been made; run_disk_setup has not been called.        *)
(***************************************************************************)
Runs == 1..MaxRuns
NoRun == [pc |-> "idle", i |-> 0, result |-> None]
OverlapIdle == runs = [r \in Runs |-> NoRun]

SubOperations ==
    <<"create_partition_table", "create_partitions", "format_filesystems",
      "mount_filesystems">>

\* The progress (in hundredths) and the status run_disk_setup reports
\* before each sub-operation.
DiskProgress == <<10, 30, 60, 90>>
DiskStatus ==
    <<"Creating partition table...", "Creating partitions...",
      "Formatting filesystems...", "Mounting filesystems...">>
DiskReturned == 5

DiskIdle ==
    /\ disk_pc = 0
    /\ sub_outcomes = [n \in DOMAIN SubOperations |-> "true"]
    /\ disk_log = <<>>
    /\ disk_result = None

UtilIdle ==
    /\ MainIdle
    /\ ConfigIdle
    /\ OverlapIdle
    /\ DiskIdle
    /\ euid = 0
    /\ platform_system = "Linux"
    /\ machine = "x86_64"
    /\ memory_total = 1024 * 1024 * 1024
    /\ which_installed = TRUE
    /\ on_path = required_tools

(***************************************************************************)
(* InstallationManager.__init__                                            *)
(***************************************************************************)
StageLists == UNION {[1..n -> Outcomes] : n \in 0..MaxStages}

Init ==
    /\ steps \in StageLists
    /\ guarded \in BOOLEAN
    /\ progress_callback = NoSink
    /\ current_step = NoStep
    /\ pc = "idle"
    /\ i = 0
    /\ result = None
    /\ events = <<>>
    /\ calls_log = <<>>
    /\ fwd = 0
    /\ prereq = <<>>
    /\ AppConstructed
    /\ CmdIdle
    /\ UtilIdle

\* The coroutine is not executing: never called, returned, or suspended
\* in the await of a stage operation.
Suspended == pc \in {"idle", "returned", "raised", "in_stage"}

(***************************************************************************)
(* set_progress_callback                                                   *)
(***************************************************************************)
set_progress_callback(cb) ==
    /\ Suspended
    /\ progress_callback' = cb
    /\ UNCHANGED <<steps, guarded, current_step, pc, i, result, events,
                   calls_log, fwd>>
    /\ UNCHANGED <<gate_vars, app_vars, cmd_vars, util_vars>>

\* A caller registers the next callback.
Register ==
    \E cb \in Sinks :
        /\ cb = progress_callback + 1
        /\ set_progress_callback(cb)

(***************************************************************************)
(* run_full_installation                                                   *)
(*                                                                         *)
(* One action runs the coroutine from where it resumes to where it next    *)
(* suspends (the await of a stage operation) or ends.  The operators below *)
(* are the pieces of its body; k is the loop position, evs and log are the *)
(* event and call records as the piece finds them.                         *)
(***************************************************************************)
\* The call ends: v is returned to the caller.
Return(v, evs, log) ==
    /\ pc' = "returned"
    /\ result' = v
    /\ events' = evs
    /\ calls_log' = log

\* The call ends: an exception leaves run_full_installation.
Propagate(evs, log) ==
    /\ pc' = "raised"
    /\ result' = None
    /\ events' = evs
    /\ calls_log' = log

\* Mutant of OuterExcept: the handler re-raises instead of returning False.
OuterExcept_Reraise(evs, log) == Propagate(evs, log)

\* Outer handler:  except Exception as e: logger.exception(...); return False
OuterExcept(evs, log) == Return(False, evs, log)

\* Mutant of InnerExcept: the handler reports the exception as a plain
\* stage failure, without the exception's message.
InnerExcept_AsFailed(k, evs, log, msg) ==
    \E raised \in SinkOutcomes :
        LET evs2 == Append(evs,
                StepProgress(StepId(k), StepName(k), 0, "Failed",
                             <<"Step failed", StepName(k)>>, raised))
        IN  IF raised
            THEN OuterExcept(evs2, log)
            ELSE Return(False, evs2, log)

\* Mutant of InnerExcept: the error event keeps the progress of a finished
\* stage.
InnerExcept_FullProgress(k, evs, log, msg) ==
    \E raised \in SinkOutcomes :
        LET evs2 == Append(evs,
                StepProgress(StepId(k), StepName(k), 100, "Error",
                             <<"Exception in step", StepName(k), msg>>, raised))
        IN  IF raised
            THEN OuterExcept(evs2, log)
            ELSE Return(False, evs2, log)

\* Inner handler:  except Exception as e:
\*     _report_progress(progress=0.0, status="Error",
\*                      error=f"Exception in step {name}: {e}"); return False
\* The handler lies inside the outer try: an exception the sink raises here
\* is taken by the outer handler.
InnerExcept(k, evs, log, msg) ==
    \E raised \in SinkOutcomes :
        LET evs2 == Append(evs,
                StepProgress(StepId(k), StepName(k), 0, "Error",
                             <<"Exception in step", StepName(k), msg>>, raised))
        IN  IF raised
            THEN OuterExcept(evs2, log)
            ELSE Return(False, evs2, log)

\* Mutant of Iterate: an exception of the sink on "Starting..." is
\* swallowed and the stage is run all the same.
Iterate_Swallow(k, evs, log) ==
    IF k > Len(steps)
    THEN /\ Return(True, evs, log)
         /\ UNCHANGED <<i, current_step>>
    ELSE /\ i' = k
         /\ current_step' = StepId(k)
         /\ \E raised \in SinkOutcomes :
             /\ pc' = "in_stage"
             /\ events' = Append(evs,
                     StepProgress(StepId(k), StepName(k), 0, "Starting...",
                                  NoError, raised))
             /\ calls_log' = Append(log, [op |-> "call", stage |-> k,
                                          value |-> None, msg |-> None])
             /\ UNCHANGED result

\* One pass of  for i, (step, name, func) in enumerate(self.steps)  from
\* position k up to the await:
\*     self.current_step = step
\*     _report_progress(progress=0.0, status="Starting...")   (outer try only)
\*     success = await func()
\* and, after the last stage,  return True.
Iterate(k, evs, log) ==
    IF k > Len(steps)
    THEN /\ Return(True, evs, log)
         /\ UNCHANGED <<i, current_step>>
    ELSE /\ i' = k
         /\ current_step' = StepId(k)
         /\ \E raised \in SinkOutcomes :
             LET evs2 == Append(evs,
                     StepProgress(StepId(k), StepName(k), 0, "Starting...",
                                  NoError, raised))
             IN  IF raised
                 THEN OuterExcept(evs2, log)
                 ELSE /\ pc' = "in_stage"
                      /\ events' = evs2
                      /\ calls_log' = Append(log, [op |-> "call", stage |-> k,
                                                   value |-> None, msg |-> None])
                      /\ UNCHANGED result

\* Mutant of ReportFailed: "return False" is missing after the "Failed"
\* event, so the loop goes on with the next stage.
ReportFailed_Continue(k, evs, log) ==
    \E raised \in SinkOutcomes :
        LET evs2 == Append(evs,
                StepProgress(StepId(k), StepName(k), 0, "Failed",
                             <<"Step failed", StepName(k)>>, raised))
        IN  IF raised
            THEN /\ InnerExcept(k, evs2, log, SinkFault)
                 /\ UNCHANGED <<i, current_step>>
            ELSE Iterate(k + 1, evs2, log)

\* if not success: _report_progress(progress=0.0, status="Failed",
\*     error=f"Step failed: {name}"); return False     (inside the inner try)
ReportFailed(k, evs, log) ==
    /\ UNCHANGED <<i, current_step>>
    /\ \E raised \in SinkOutcomes :
        LET evs2 == Append(evs,
                StepProgress(StepId(k), StepName(k), 0, "Failed",
                             <<"Step failed", StepName(k)>>, raised))
        IN  IF raised
            THEN InnerExcept(k, evs2, log, SinkFault)
            ELSE Return(False, evs2, log)

\* Mutant of ReportCompleted: no "Completed" event is emitted.
ReportCompleted_Silent(k, evs, log) == Iterate(k + 1, evs, log)

\* Mutant of ReportCompleted: the loop skips the stage after a success.
ReportCompleted_Skip(k, evs, log) ==
    \E raised \in SinkOutcomes :
        LET evs2 == Append(evs,
                StepProgress(StepId(k), StepName(k), 100, "Completed",
                             NoError, raised))
        IN  IF raised
            THEN /\ InnerExcept(k, evs2, log, SinkFault)
                 /\ UNCHANGED <<i, current_step>>
            ELSE Iterate(k + 2, evs2, log)

\* Mutant of ReportCompleted: "Completed" is emitted with progress 0.0.
ReportCompleted_ZeroProgress(k, evs, log) ==
    \E raised \in SinkOutcomes :
        LET evs2 == Append(evs,
                StepProgress(StepId(k), StepName(k), 0, "Completed",
                             NoError, raised))
        IN  IF raised
            THEN /\ InnerExcept(k, evs2, log, SinkFault)
                 /\ UNCHANGED <<i, current_step>>
            ELSE Iterate(k + 1, evs2, log)

\* Mutant of ReportCompleted: the loop does not advance, the stage that
\* succeeded is run again.
ReportCompleted_Again(k, evs, log) ==
    \E raised \in SinkOutcomes :
        LET evs2 == Append(evs,
                StepProgress(StepId(k), StepName(k), 100, "Completed",
                             NoError, raised))
        IN  IF raised
            THEN /\ InnerExcept(k, evs2, log, SinkFault)
                 /\ UNCHANGED <<i, current_step>>
            ELSE Iterate(k, evs2, log)

\* _report_progress(progress=1.0, status="Completed")  (inside the inner try),
\* then the next pass of the loop.
ReportCompleted(k, evs, log) ==
    \E raised \in SinkOutcomes :
        LET evs2 == Append(evs,
                StepProgress(StepId(k), StepName(k), 100, "Completed",
                             NoError, raised))
        IN  IF raised
            THEN /\ InnerExcept(k, evs2, log, SinkFault)
                 /\ UNCHANGED <<i, current_step>>
            ELSE Iterate(k + 1, evs2, log)

\* Mutant of StageResult: the stage operations lack their
\* "except Exception: return False".
StageResult_Unguarded(o) == o

\* What the stage operation hands back to run_full_installation when its
\* executor ends with o: a guarded operation turns an exception into False.
StageResult(o) ==
    IF guarded /\ o = "raise" THEN "false" ELSE o

\* run_full_installation resumes: await func() yields r, or raises msg.
AfterFunc(r, msg, evs) ==
    LET log == Append(calls_log,
                 [op |-> "ret", stage |-> i, value |-> r,
                  msg |-> IF r = "raise" THEN msg ELSE None])
    IN  CASE r = "true" -> ReportCompleted(i, evs, log)
          [] r = "false" -> ReportFailed(i, evs, log)
          [] r = "raise" -> /\ InnerExcept(i, evs, log, msg)
                            /\ UNCHANGED <<i, current_step>>

\* Mutant of Call: a run after a run that failed takes the loop up at the
\* stage that failed.
Call_Resume ==
    /\ pc \in {"idle", "returned", "raised"}
    /\ Iterate(IF result = False /\ i > 0 THEN i ELSE 1, <<>>, <<>>)
    /\ fwd' = 0
    /\ UNCHANGED <<steps, guarded, progress_callback>>
    /\ UNCHANGED <<gate_vars, app_vars, cmd_vars, util_vars>>

\* Mutant of Call: run_full_installation refuses to start unless the last
\* validate_prerequisites returned True.
Call_Gated ==
    /\ pc \in {"idle", "returned", "raised"}
    /\ prereq # <<>>
    /\ prereq[1].result = True
    /\ Iterate(1, <<>>, <<>>)
    /\ fwd' = 0
    /\ UNCHANGED <<steps, guarded, progress_callback>>
    /\ UNCHANGED <<gate_vars, app_vars, cmd_vars, util_vars>>

\* The call of run_full_installation.
Call ==
    /\ pc \in {"idle", "returned", "raised"}
    /\ Iterate(1, <<>>, <<>>)
    /\ fwd' = 0
    /\ UNCHANGED <<steps, guarded, progress_callback>>
    /\ UNCHANGED <<gate_vars, app_vars, cmd_vars, util_vars>>

\* The stage in flight forwards a progress event through
\*     lambda p, s: self._report_progress(step, name, p, s)
\* If the sink raises, the exception ends the executor.
StageProgress ==
    /\ pc = "in_stage"
    /\ fwd < MaxForward
    /\ \E p \in ForwardProgress, raised \in SinkOutcomes :
        LET evs2 == Append(events,
                StepProgress(StepId(i), StepName(i), p, "Working...",
                             NoError, raised))
        IN  IF raised
            THEN AfterFunc(StageResult("raise"), SinkFault, evs2)
            ELSE /\ events' = evs2
                 /\ UNCHANGED <<pc, i, result, current_step, calls_log>>
    /\ fwd' = fwd + 1
    /\ UNCHANGED <<steps, guarded, progress_callback>>
    /\ UNCHANGED <<gate_vars, app_vars, cmd_vars, util_vars>>

\* The executor of the stage in flight ends with its outcome.
StageReturn ==
    /\ pc = "in_stage"
    /\ AfterFunc(StageResult(steps[i]), StageFault, events)
    /\ UNCHANGED fwd
    /\ UNCHANGED <<steps, guarded, progress_callback>>
    /\ UNCHANGED <<gate_vars, app_vars, cmd_vars, util_vars>>

\* get_current_step
get_current_step == current_step

Next ==
    \/ Register
    \/ Call
    \/ StageProgress
    \/ StageReturn

Spec == Init /\ [][Next]_vars

(***************************************************************************)
(* run_full_installation invoked while an earlier invocation is suspended  *)
(*                                                                         *)
(* The method has no guard at its entry: a second call made while the      *)
(* first is suspended in  await func()  (from another task, or through     *)
(* asyncio.gather) runs the same body on the same manager.  Each           *)
(* invocation has its own loop position; self.current_step is shared.  No  *)
(* progress sink is registered here, so _report_progress does nothing.     *)
(***************************************************************************)
OverlapFrame ==
    /\ UNCHANGED <<steps, guarded, progress_callback, pc, i, result, events,
                   calls_log, fwd>>
    /\ UNCHANGED <<gate_vars, app_vars, cmd_vars, main_vars, config_vars,
                   disk_vars>>

\* Invocation r from position k of the loop up to the await:
\*     self.current_step = step; success = await func()
\* and, after the last stage,  return True.
OverlapIterate(r, k) ==
    IF k > Len(steps)
    THEN /\ runs' = [runs EXCEPT ![r] =
                        [pc |-> "returned", i |-> runs[r].i, result |-> True]]
         /\ UNCHANGED current_step
    ELSE /\ runs' = [runs EXCEPT ![r] =
                        [pc |-> "in_stage", i |-> k, result |-> None]]
         /\ current_step' = StepId(k)

\* A call of run_full_installation, whatever the other invocations are
\* doing.
OverlapCall(r) ==
    /\ runs[r].pc = "idle"
    /\ OverlapIterate(r, 1)
    /\ OverlapFrame

\* The stage operation invocation r awaits ends: true goes on with the
\* next pass of the loop; false, or an exception (inner handler), returns
\* False.
OverlapStageReturn(r) ==
    /\ runs[r].pc = "in_stage"
    /\ IF StageResult(steps[runs[r].i]) = "true"
       THEN OverlapIterate(r, runs[r].i + 1)
       ELSE /\ runs' = [runs EXCEPT ![r] =
                           [pc |-> "returned", i |-> runs[r].i,
                            result |-> False]]
            /\ UNCHANGED current_step
    /\ OverlapFrame

InitOverlap ==
    /\ steps \in StageLists
    /\ guarded \in BOOLEAN
    /\ progress_callback = NoSink
    /\ current_step = NoStep
    /\ pc = "idle"
    /\ i = 0
    /\ result = None
    /\ events = <<>>
    /\ calls_log = <<>>
    /\ fwd = 0
    /\ prereq = <<>>
    /\ AppConstructed
    /\ CmdIdle
    /\ UtilIdle

NextOverlap ==
    \/ \E r \in Runs : OverlapCall(r)
    \/ \E r \in Runs : OverlapStageReturn(r)

SpecOverlap == InitOverlap /\ [][NextOverlap]_vars

(***************************************************************************)
(* run_disk_setup                                                          *)
(*                                                                         *)
(* The coroutine gives up control while it awaits a sub-operation of the   *)
(* disk manager.  The whole body lies in  try ... except Exception:        *)
(* return False,  the calls of _report_progress included.                  *)
(***************************************************************************)
DiskFrame ==
    /\ UNCHANGED <<steps, guarded, progress_callback, current_step, pc, i,
                   result, events, calls_log, fwd, sub_outcomes>>
    /\ UNCHANGED <<gate_vars, app_vars, cmd_vars, main_vars, config_vars,
                   overlap_vars>>

DiskEntry(kind, n, progress, status, raised) ==
    [kind |-> kind, op |-> n, step |-> "DISK_SETUP",
     name |-> "Setting up disk partitions", progress |-> progress,
     status |-> status, sink |-> progress_callback, raised |-> raised]

\* return value / "except Exception: return False"
DiskReturn(value, log) ==
    /\ disk_pc' = DiskReturned
    /\ disk_result' = value
    /\ disk_log' = log

\* self._report_progress(InstallationStep.DISK_SETUP,
\*     "Setting up disk partitions", p, status)
\* if not await self.disk_manager.<sub-operation n>(): ...   up to the await
DiskStep(n, log) ==
    \E raised \in SinkOutcomes :
        LET log2 == Append(log,
                DiskEntry("progress", n, DiskProgress[n], DiskStatus[n],
                          raised))
        IN  IF raised
            THEN DiskReturn(False, log2)
            ELSE /\ disk_pc' = n
                 /\ disk_log' = Append(log2,
                         DiskEntry("call", n, 0, SubOperations[n], FALSE))
                 /\ UNCHANGED disk_result

\* The call of run_disk_setup.
run_disk_setup ==
    /\ disk_pc = 0
    /\ DiskStep(1, disk_log)
    /\ DiskFrame

\* Mutant of SubOperationReturns: a sub-operation that returns false does
\* not end the call, the next one is started.
SubOperationReturns_GoOn ==
    /\ disk_pc \in DOMAIN SubOperations
    /\ LET o == sub_outcomes[disk_pc]
           log == Append(disk_log, DiskEntry("ret", disk_pc, 0, o, FALSE))
       IN  IF o = "raise"
           THEN DiskReturn(False, log)
           ELSE IF disk_pc = Len(SubOperations)
           THEN DiskReturn(True, log)
           ELSE DiskStep(disk_pc + 1, log)
    /\ DiskFrame

\* The sub-operation awaited ends: it returns true (the next one is
\* reported and started, or after the last one True is returned), it
\* returns false (return False) or it raises (except Exception: return
\* False).
SubOperationReturns ==
    /\ disk_pc \in DOMAIN SubOperations
    /\ LET o == sub_outcomes[disk_pc]
           log == Append(disk_log, DiskEntry("ret", disk_pc, 0, o, FALSE))
       IN  IF o # "true"
           THEN DiskReturn(False, log)
           ELSE IF disk_pc = Len(SubOperations)
           THEN DiskReturn(True, log)
           ELSE DiskStep(disk_pc + 1, log)
    /\ DiskFrame

\* The manager before run_disk_setup is called, with or without a
\* progress sink; each sub-operation of the disk manager returns true,
\* returns false or raises.
InitDisk ==
    /\ steps = <<>>
    /\ guarded = TRUE
    /\ progress_callback \in {NoSink, 1}
    /\ current_step = NoStep
    /\ pc = "idle"
    /\ i = 0
    /\ result = None
    /\ events = <<>>
    /\ calls_log = <<>>
    /\ fwd = 0
    /\ prereq = <<>>
    /\ AppConstructed
    /\ CmdIdle
    /\ MainIdle
    /\ ConfigIdle
    /\ OverlapIdle
    /\ euid = 0
    /\ platform_system = "Linux"
    /\ machine = "x86_64"
    /\ memory_total = 1024 * 1024 * 1024
    /\ which_installed = TRUE
    /\ on_path = required_tools
    /\ disk_pc = 0
    /\ sub_outcomes \in [DOMAIN SubOperations -> Outcomes]
    /\ disk_log = <<>>
    /\ disk_result = None

NextDisk ==
    \/ run_disk_setup
    \/ SubOperationReturns

SpecDisk == InitDisk /\ [][NextDisk]_vars

(***************************************************************************)
(* validate_prerequisites                                                  *)
(*                                                                         *)
(* The call reads config.dry_run and asks the system: os.geteuid(),        *)
(* Path(target_disk).exists(), Path(mount_point).exists() and              *)
(* mount_point.iterdir().  PrereqCheck follows the body statement by       *)
(* statement and yields the oracles consulted, in order, whether the       *)
(* warning was logged, and how the call ends.  iterdir() raises OSError    *)
(* for a path that cannot be listed, and nothing in the body catches it.   *)
(***************************************************************************)
PrereqCheck(dry_run, is_root, disk_exists, mount) ==
    LET c1 == IF ~dry_run THEN <<"geteuid">> ELSE <<>>
        c2 == c1 \o (IF ~dry_run THEN <<"disk.exists">> ELSE <<>>)
        c3 == c2 \o <<"mount.exists">>
        c4 == c3 \o <<"mount.iterdir">>
    IN  IF ~dry_run /\ ~is_root
        THEN [consulted |-> c1, warned |-> FALSE, result |-> False]
        ELSE IF ~dry_run /\ ~disk_exists
        THEN [consulted |-> c2, warned |-> FALSE, result |-> False]
        ELSE IF mount = "missing"
        THEN [consulted |-> c3, warned |-> FALSE, result |-> True]
        ELSE IF mount = "unlistable"
        THEN [consulted |-> c4, warned |-> FALSE, result |-> Raised]
        ELSE IF mount = "nonempty"
        THEN [consulted |-> c4, warned |-> TRUE, result |-> True]
        ELSE [consulted |-> c4, warned |-> FALSE, result |-> True]

\* A caller invokes validate_prerequisites; the method is synchronous, so
\* the coroutine is not executing meanwhile.
validate_prerequisites ==
    /\ Suspended
    /\ \E dry_run \in BOOLEAN, is_root \in BOOLEAN, disk_exists \in BOOLEAN,
          mount \in MountStates :
          LET r == PrereqCheck(dry_run, is_root, disk_exists, mount)
          IN  prereq' = << [dry_run |-> dry_run, is_root |-> is_root,
                            disk_exists |-> disk_exists, mount |-> mount,
                            consulted |-> r.consulted, warned |-> r.warned,
                            result |-> r.result] >>
    /\ UNCHANGED <<steps, guarded, progress_callback, current_step, pc, i,
                   result, events, calls_log, fwd>>
    /\ UNCHANGED <<app_vars, cmd_vars, util_vars>>

\* The manager as its owner holds it before the first run: constructed,
\* and either left without a progress sink or given one.
InitGate ==
    /\ steps \in StageLists
    /\ guarded \in BOOLEAN
    /\ progress_callback \in {NoSink, 1}
    /\ current_step = NoStep
    /\ pc = "idle"
    /\ i = 0
    /\ result = None
    /\ events = <<>>
    /\ calls_log = <<>>
    /\ fwd = 0
    /\ prereq = <<>>
    /\ AppConstructed
    /\ CmdIdle
    /\ UtilIdle

\* The orchestrator with its gate: a caller validates and runs
\* installations in any order.
NextGate ==
    \/ validate_prerequisites
    \/ Call
    \/ StageReturn

SpecGate == InitGate /\ [][NextGate]_vars

(***************************************************************************)
(* GentooUIApp: the wizard                                                 *)
(*                                                                         *)
(* Every handler runs to completion on the application's event loop, so    *)
(* each is one action.  show_*_screen replaces the children of             *)
(* #content-area by the screen and sets the status text; the screen is     *)
(* given the handlers it can fire, so a handler fires only while its       *)
(* screen is the one displayed.                                            *)
(***************************************************************************)
\* What no handler of the application touches.
OrchestratorUntouched ==
    UNCHANGED <<steps, guarded, progress_callback, current_step, pc, i,
                result, events, calls_log, fwd, gate_vars, cmd_vars, util_vars>>

Running == screen # NoScreen /\ ~exited

\* Mutant of advance_step: the upper limit is not tested.
advance_step_Unbounded ==
    app_current_step' = app_current_step + 1

\* advance_step: if self.current_step < self.total_steps - 1:
\*                   self.current_step += 1
advance_step ==
    app_current_step' =
        IF app_current_step < total_steps - 1
        THEN app_current_step + 1
        ELSE app_current_step

\* Mutant of previous_step: going back restarts the wizard at index 0.
previous_step_Restart ==
    app_current_step' = IF app_current_step > 1 THEN 0 ELSE app_current_step

\* previous_step: if self.current_step > 0: self.current_step -= 1
previous_step ==
    app_current_step' =
        IF app_current_step > 0
        THEN app_current_step - 1
        ELSE app_current_step

\* update_status
update_status(message) == status_text' = message

show_welcome_screen ==
    /\ screen' = "welcome"
    /\ update_status("Welcome - Review system information and configuration")

show_disk_setup_screen ==
    /\ screen' = "disk_setup"
    /\ update_status("Disk Setup - Configure partitions and file systems")

show_stage3_screen ==
    /\ screen' = "stage3"
    /\ update_status("Stage3 - Download and extract base system")

show_configuration_screen ==
    /\ screen' = "configuration"
    /\ update_status("Configuration - Set up system configuration")

show_kernel_screen ==
    /\ screen' = "kernel"
    /\ update_status("Kernel - Configure and compile kernel")

show_bootloader_screen ==
    /\ screen' = "bootloader"
    /\ update_status("Bootloader - Install and configure bootloader")

show_finalization_screen ==
    /\ screen' = "finalization"
    /\ update_status("Finalization - Complete installation and cleanup")

\* What a handler that navigates leaves alone.
NavigationFrame ==
    /\ UNCHANGED <<total_steps, installation_active, dry_run_mode, exited>>
    /\ OrchestratorUntouched

\* on_mount: the welcome screen is shown, the index is not changed.
on_mount ==
    /\ screen = NoScreen
    /\ ~exited
    /\ show_welcome_screen
    /\ UNCHANGED app_current_step
    /\ NavigationFrame

\* Mutant of on_welcome_continue: leaving the welcome screen marks the
\* installation as active.
on_welcome_continue_Activates ==
    /\ Running /\ screen = "welcome"
    /\ advance_step
    /\ show_disk_setup_screen
    /\ installation_active' = TRUE
    /\ UNCHANGED <<total_steps, dry_run_mode, exited>>
    /\ OrchestratorUntouched

on_welcome_continue ==
    /\ Running /\ screen = "welcome"
    /\ advance_step
    /\ show_disk_setup_screen
    /\ NavigationFrame

on_disk_setup_continue ==
    /\ Running /\ screen = "disk_setup"
    /\ advance_step
    /\ show_stage3_screen
    /\ NavigationFrame

on_stage3_continue ==
    /\ Running /\ screen = "stage3"
    /\ advance_step
    /\ show_configuration_screen
    /\ NavigationFrame

on_configuration_continue ==
    /\ Running /\ screen = "configuration"
    /\ advance_step
    /\ show_kernel_screen
    /\ NavigationFrame

\* Mutant of on_kernel_continue: the bootloader screen is shown without
\* advancing the index.
on_kernel_continue_NoAdvance ==
    /\ Running /\ screen = "kernel"
    /\ UNCHANGED app_current_step
    /\ show_bootloader_screen
    /\ NavigationFrame

on_kernel_continue ==
    /\ Running /\ screen = "kernel"
    /\ advance_step
    /\ show_bootloader_screen
    /\ NavigationFrame

\* Mutant of on_bootloader_continue: entering the last step already
\* reports the installation as complete.
on_bootloader_continue_Completes ==
    /\ Running /\ screen = "bootloader"
    /\ advance_step
    /\ screen' = "finalization"
    /\ update_status("Installation completed successfully!")
    /\ NavigationFrame

on_bootloader_continue ==
    /\ Running /\ screen = "bootloader"
    /\ advance_step
    /\ show_finalization_screen
    /\ NavigationFrame

\* on_installation_complete: the finish callback of the finalization screen.
on_installation_complete ==
    /\ Running /\ screen = "finalization"
    /\ update_status("Installation completed successfully!")
    /\ installation_active' = FALSE
    /\ UNCHANGED <<app_current_step, total_steps, dry_run_mode, screen,
                   exited>>
    /\ OrchestratorUntouched

on_back_to_welcome ==
    /\ Running /\ screen = "disk_setup"
    /\ previous_step
    /\ show_welcome_screen
    /\ NavigationFrame

on_back_to_disk_setup ==
    /\ Running /\ screen = "stage3"
    /\ previous_step
    /\ show_disk_setup_screen
    /\ NavigationFrame

on_back_to_stage3 ==
    /\ Running /\ screen = "configuration"
    /\ previous_step
    /\ show_stage3_screen
    /\ NavigationFrame

on_back_to_configuration ==
    /\ Running /\ screen = "kernel"
    /\ previous_step
    /\ show_configuration_screen
    /\ NavigationFrame

\* Mutant of on_back_to_kernel: the finalization screen has a back
\* callback as well, to the bootloader screen.
on_back_to_kernel_FromLast ==
    /\ Running /\ screen \in {"bootloader", "finalization"}
    /\ previous_step
    /\ IF screen = "finalization"
       THEN show_bootloader_screen
       ELSE show_kernel_screen
    /\ NavigationFrame

on_back_to_kernel ==
    /\ Running /\ screen = "bootloader"
    /\ previous_step
    /\ show_kernel_screen
    /\ NavigationFrame

\* on_load_config, fired from the welcome screen: only the status changes.
on_load_config ==
    /\ Running /\ screen = "welcome"
    /\ update_status("Loaded configuration from config_path")
    /\ UNCHANGED <<app_current_step, screen>>
    /\ NavigationFrame

\* action_quit (ctrl+c): self.exit()
action_quit ==
    /\ Running
    /\ exited' = TRUE
    /\ UNCHANGED <<app_current_step, total_steps, installation_active,
                   dry_run_mode, screen, status_text>>
    /\ OrchestratorUntouched

\* advance_step and previous_step called on their own, as the public
\* methods they are, without a change of screen.
AdvanceCall ==
    /\ Running
    /\ advance_step
    /\ UNCHANGED <<screen, status_text>>
    /\ NavigationFrame

PreviousCall ==
    /\ Running
    /\ previous_step
    /\ UNCHANGED <<screen, status_text>>
    /\ NavigationFrame

\* The application as main constructs it: config.dry_run either way, and
\* its own InstallationManager with the built-in stage operations.
InitApp ==
    /\ steps \in [1..MaxStages -> {"true", "false"}]
    /\ guarded = TRUE
    /\ progress_callback = NoSink
    /\ current_step = NoStep
    /\ pc = "idle"
    /\ i = 0
    /\ result = None
    /\ events = <<>>
    /\ calls_log = <<>>
    /\ fwd = 0
    /\ prereq = <<>>
    /\ \E dry_run \in BOOLEAN : AppInit(dry_run)
    /\ CmdIdle
    /\ UtilIdle

\* The handlers the screens fire.
Handlers ==
    \/ on_welcome_continue
    \/ on_disk_setup_continue
    \/ on_stage3_continue
    \/ on_configuration_continue
    \/ on_kernel_continue
    \/ on_bootloader_continue
    \/ on_installation_complete
    \/ on_back_to_welcome
    \/ on_back_to_disk_setup
    \/ on_back_to_stage3
    \/ on_back_to_configuration
    \/ on_back_to_kernel
    \/ on_load_config

\* The wizard driven through its screens only.
NextWizard ==
    \/ on_mount
    \/ Handlers
    \/ action_quit

SpecWizard == InitApp /\ [][NextWizard]_vars

\* The whole application: the screens' handlers, the navigation methods
\* called directly, and the installation manager the application owns,
\* which the holders of a reference to it may run.
NextApp ==
    \/ on_mount
    \/ Handlers
    \/ action_quit
    \/ AdvanceCall
    \/ PreviousCall
    \/ Call
    \/ StageReturn

SpecApp == InitApp /\ [][NextApp]_vars

(***************************************************************************)
(* run_command                                                             *)
(*                                                                         *)
(* The coroutine gives up control in  await create_subprocess_exec,        *)
(* await wait_for(process.communicate(), timeout)  and, in the timeout     *)
(* handler,  await process.wait().  Meanwhile the process lives its own    *)
(* life.  As asyncio sees it the process is                                *)
(*   "running"   started and not ended,                                    *)
(*   "killed"    sent SIGKILL, not yet ended,                              *)
(*   "exited"    ended, the event loop has not yet taken note,             *)
(*   "released"  ended, exit status collected (the process is reaped),     *)
(*               pipes at end of file and the transport closed.            *)
(* communicate() and wait() complete once the process is released.         *)
(* process.kill() raises ProcessLookupError for a released process, does   *)
(* nothing for one that has exited, and signals one that is running.       *)
(***************************************************************************)
MaxCommands == 2    \* calls of run_command in one behaviour

Timed == "timeout given"
Sentinel == -1
ExitCodes == {0, 1}

\* Bytes a process writes to a pipe: nothing, UTF-8 text, or bytes that are
\* not valid UTF-8.
Written == { <<>>, <<"utf-8", "text">>, <<"invalid">> }

\* stdout.decode('utf-8') if stdout else ""
Decodable(bytes) == bytes = <<>> \/ bytes[1] = "utf-8"
Decode(bytes) == IF bytes = <<>> THEN "" ELSE bytes[2]

Returns(code, out, err) ==
    << [kind |-> "return", code |-> code, stdout |-> out, stderr |-> err] >>
Raises(exc) ==
    << [kind |-> "raise", code |-> Sentinel, stdout |-> "", stderr |-> exc] >>

\* What create_subprocess_exec does: it spawns the process, or raises an
\* OSError (the executable is missing, is not executable, ...).  One kind
\* of OSError is set apart: errno ETIMEDOUT (the executable lives on a
\* mount that stopped answering) constructs the builtin TimeoutError.
LaunchOutcomes == {"spawned", "OSError", "TimeoutError"}

\* The handler a failed launch ends in.  An ordinary OSError is taken by
\* "except Exception" and becomes the sentinel triple.  TimeoutError is the
\* same class as asyncio.TimeoutError from Python 3.11 on, and a different
\* class before (setup.py accepts 3.8 and later): on the newer builds the
\* first handler takes it and runs process.kill() with "process" never
\* bound, and the UnboundLocalError raised inside the handler leaves
\* run_command; on the older builds the last handler takes it.
LaunchFailure(launch) ==
    IF launch = "TimeoutError"
    THEN { Returns(Sentinel, "", "launch failed"),
           Raises("UnboundLocalError") }
    ELSE { Returns(Sentinel, "", "launch failed") }

\* The call of run_command up to its first await that does not complete at
\* once: the process is spawned, or the launch has failed and the call is
\* over.
run_command ==
    /\ cmd_pc \in {"idle", "done"}
    /\ spawned < MaxCommands
    /\ \E t \in {NoTimeout, Timed}, cap \in BOOLEAN,
          launch \in LaunchOutcomes :
        /\ cmd_timeout' = t
        /\ capture_output' = cap
        /\ returncode' = <<>>
        /\ pipes' = << <<>>, <<>> >>
        /\ expiry' = NoProcess
        /\ IF launch = "spawned"
           THEN /\ proc' = "running"
                /\ spawned' = spawned + 1
                /\ cmd_pc' = "communicate"
                /\ cmd_result' = <<>>
           ELSE /\ proc' = NoProcess
                /\ UNCHANGED spawned
                /\ cmd_pc' = "done"
                /\ cmd_result' \in LaunchFailure(launch)
    /\ UNCHANGED <<steps, guarded, progress_callback, current_step, pc, i,
                   result, events, calls_log, fwd, gate_vars, app_vars,
                   util_vars>>

CmdFrame ==
    UNCHANGED <<steps, guarded, progress_callback, current_step, pc, i,
                result, events, calls_log, fwd, gate_vars, app_vars, util_vars,
                cmd_timeout, capture_output, spawned>>

\* The process ends: on its own with an exit status, having written what
\* it wrote, or by the SIGKILL it was sent.
ProcessExits ==
    /\ proc \in {"running", "killed"}
    /\ proc' = "exited"
    /\ IF proc = "killed"
       THEN /\ returncode' = <<-9>>
            /\ pipes' = << <<>>, <<>> >>
       ELSE /\ \E code \in ExitCodes : returncode' = <<code>>
            /\ \E out \in Written, err \in Written : pipes' = <<out, err>>
    /\ UNCHANGED <<cmd_pc, cmd_result>>
    /\ UNCHANGED expiry
    /\ CmdFrame

\* The event loop takes note of the end of the process: the exit status is
\* collected, the pipes reach end of file, the transport is closed.
ProcessReleased ==
    /\ proc = "exited"
    /\ proc' = "released"
    /\ UNCHANGED <<cmd_pc, cmd_result, returncode, pipes>>
    /\ UNCHANGED expiry
    /\ CmdFrame

\* wait_for(process.communicate(), ...) completes: the output is decoded
\* and the triple returned; a decoding error is an Exception and is turned
\* into the sentinel triple by the last handler.
CommunicateReturns ==
    /\ cmd_pc = "communicate"
    /\ proc = "released"
    /\ LET out == IF capture_output THEN pipes[1] ELSE <<>>
           err == IF capture_output THEN pipes[2] ELSE <<>>
       IN  cmd_result' =
             IF Decodable(out) /\ Decodable(err)
             THEN Returns(returncode[1], Decode(out), Decode(err))
             ELSE Returns(Sentinel, "", "codec can't decode")
    /\ cmd_pc' = "done"
    /\ UNCHANGED <<proc, returncode, pipes>>
    /\ UNCHANGED expiry
    /\ CmdFrame

\* The timeout expires while the process has not been released: wait_for
\* cancels communicate() and, once the cancellation has gone through, will
\* raise TimeoutError into run_command.
TimeoutExpires ==
    /\ cmd_pc = "communicate"
    /\ cmd_timeout = Timed
    /\ proc # "released"
    /\ cmd_pc' = "timed out"
    /\ expiry' = proc
    /\ UNCHANGED <<proc, returncode, pipes, cmd_result>>
    /\ CmdFrame

\* except asyncio.TimeoutError:  process.kill(); await process.wait()
\* An exception raised inside this handler is not taken by the
\* "except Exception" clause next to it: it leaves run_command.
HandleTimeout ==
    /\ cmd_pc = "timed out"
    /\ IF proc = "released"
       THEN /\ cmd_result' = Raises("ProcessLookupError")
            /\ cmd_pc' = "done"
            /\ UNCHANGED proc
       ELSE /\ proc' = IF proc = "running" THEN "killed" ELSE proc
            /\ cmd_pc' = "wait"
            /\ UNCHANGED cmd_result
    /\ UNCHANGED <<returncode, pipes>>
    /\ UNCHANGED expiry
    /\ CmdFrame

\* process.wait() completes: return -1, "", "Command timed out"
WaitReturns ==
    /\ cmd_pc = "wait"
    /\ proc = "released"
    /\ cmd_result' = Returns(Sentinel, "", "Command timed out")
    /\ cmd_pc' = "done"
    /\ UNCHANGED <<proc, returncode, pipes>>
    /\ UNCHANGED expiry
    /\ CmdFrame

InitCmd ==
    /\ steps = <<>>
    /\ guarded = TRUE
    /\ progress_callback = NoSink
    /\ current_step = NoStep
    /\ pc = "idle"
    /\ i = 0
    /\ result = None
    /\ events = <<>>
    /\ calls_log = <<>>
    /\ fwd = 0
    /\ prereq = <<>>
    /\ AppConstructed
    /\ CmdIdle
    /\ UtilIdle

NextCmd ==
    \/ run_command
    \/ ProcessExits
    \/ ProcessReleased
    \/ CommunicateReturns
    \/ TimeoutExpires
    \/ HandleTimeout
    \/ WaitReturns

SpecCmd == InitCmd /\ [][NextCmd]_vars

(***************************************************************************)
(* utils/system.py: the checks main makes before anything else             *)
(***************************************************************************)
Platforms == {"Linux", "Darwin"}
Machines == {"x86_64", "riscv64"}
supported_archs == {"x86_64", "amd64", "i686", "arm64", "aarch64"}
MinMemory == 1024 * 1024 * 1024
MemoryTotals == {MinMemory - 1, MinMemory}

check_root_privileges == euid = 0

\* subprocess.run(["which", command], check=True): True when which finds
\* the command, False when it exits nonzero (CalledProcessError); when
\* which itself cannot be run, FileNotFoundError is not among the caught
\* exceptions and leaves is_command_available.
is_command_available(command) ==
    IF ~which_installed THEN Raised
    ELSE IF command \in on_path THEN True ELSE False

\* Mutant of check_system_compatibility: a machine that draws a warning is
\* rejected.
check_system_compatibility_Strict ==
    LET warnings ==
            (IF machine \notin supported_archs THEN {"architecture"} ELSE {})
            \cup (IF memory_total < MinMemory THEN {"memory"} ELSE {})
    IN  [result |-> /\ platform_system = "Linux"
                    /\ warnings = {}
                    /\ \A t \in required_tools : is_command_available(t) = True,
         warnings |-> IF platform_system = "Linux" THEN warnings ELSE {},
         errors |-> {}]

\* The answer of check_system_compatibility with what it logged: warnings
\* for an unsupported architecture and for less than 1GB of memory, an
\* error for each reason to answer False.  An exception of a probe is
\* taken by "except Exception" and answered with False.
check_system_compatibility ==
    IF platform_system # "Linux"
    THEN [result |-> FALSE, warnings |-> {},
          errors |-> {"System is not Linux-based"}]
    ELSE LET warnings ==
                 (IF machine \notin supported_archs
                  THEN {"architecture"} ELSE {})
                 \cup (IF memory_total < MinMemory THEN {"memory"} ELSE {})
             missing_tools ==
                 {t \in required_tools : is_command_available(t) = False}
         IN  IF \E t \in required_tools : is_command_available(t) = Raised
             THEN [result |-> FALSE, warnings |-> warnings,
                   errors |-> {"Error checking system compatibility"}]
             ELSE IF missing_tools # {}
             THEN [result |-> FALSE, warnings |-> warnings,
                   errors |-> {"Missing required tools"}]
             ELSE [result |-> TRUE, warnings |-> warnings, errors |-> {}]

\* main.check_prerequisites: root first, then compatibility.
check_prerequisites ==
    check_root_privileges /\ check_system_compatibility.result

(***************************************************************************)
(* main.py: the entry point, one action per part of its body               *)
(***************************************************************************)
Interrupts == {"Exception", "KeyboardInterrupt"}

\* except KeyboardInterrupt: sys.exit(130); except Exception: sys.exit(1)
ExitStatus(kind) == IF kind = "KeyboardInterrupt" THEN 130 ELSE 1

MainFrame ==
    UNCHANGED <<steps, guarded, progress_callback, current_step, pc, i,
                result, events, calls_log, fwd, gate_vars, cmd_vars,
                euid, platform_system, machine, memory_total,
                which_installed, on_path, argv, config_vars,
                overlap_vars, disk_vars>>

Exits(status, phase, kind) ==
    /\ main_pc' = "exited"
    /\ exit_status' = <<status>>
    /\ fault' = [phase |-> phase, kind |-> kind]

MainRaises(phase, kind) == Exits(ExitStatus(kind), phase, kind)

\* click parses the command line: a rejected command line (an unknown
\* option, a --config path that does not exist) ends the process with
\* status 2 before main's body is entered.
main ==
    /\ main_pc = "not started"
    /\ \E a \in [config : BOOLEAN, dry_run : BOOLEAN, skip_checks : BOOLEAN,
                  usage : BOOLEAN] :
        /\ argv' = a
        /\ IF a.usage
           THEN /\ main_pc' = "setup_logging"
                /\ UNCHANGED <<exit_status, fault>>
           ELSE Exits(2, "command line", "UsageError")
    /\ UNCHANGED <<started, compat, app_config, app_vars>>
    /\ UNCHANGED <<steps, guarded, progress_callback, current_step, pc, i,
                   result, events, calls_log, fwd, gate_vars, cmd_vars,
                   euid, platform_system, machine, memory_total,
                   which_installed, on_path, config_vars,
                   overlap_vars, disk_vars>>

\* setup_logging(log_level, log_file); print_banner()
\* The log file's directory is created and the file opened: that can fail.
setup_logging ==
    /\ main_pc = "setup_logging"
    /\ \/ /\ main_pc' = "check_prerequisites"
          /\ UNCHANGED <<exit_status, fault>>
       \/ \E kind \in Interrupts : MainRaises("setup_logging", kind)
    /\ UNCHANGED <<started, compat, app_config, app_vars>>
    /\ MainFrame

\* Mutant of CheckPrerequisites: a failed check is printed and main goes
\* on.
CheckPrerequisites_GoOn ==
    /\ main_pc = "check_prerequisites"
    /\ main_pc' = "load_config"
    /\ started' = IF argv.skip_checks THEN started
                  ELSE started \cup {"check_prerequisites"}
    /\ compat' = IF ~argv.skip_checks /\ check_root_privileges
                 THEN <<check_system_compatibility>> ELSE compat
    /\ UNCHANGED <<exit_status, fault, app_config, app_vars>>
    /\ MainFrame

\* Mutant of CheckPrerequisites: --dry-run skips the checks as
\* --skip-checks does.
CheckPrerequisites_DryRunSkips ==
    /\ main_pc = "check_prerequisites"
    /\ IF argv.skip_checks \/ argv.dry_run
       THEN /\ main_pc' = "load_config"
            /\ UNCHANGED <<started, compat, exit_status, fault>>
       ELSE /\ started' = started \cup {"check_prerequisites"}
            /\ \/ /\ MainRaises("check_prerequisites", "KeyboardInterrupt")
                  /\ UNCHANGED compat
               \/ /\ compat' = IF check_root_privileges
                                THEN <<check_system_compatibility>>
                                ELSE <<>>
                  /\ IF check_prerequisites
                     THEN /\ main_pc' = "load_config"
                          /\ UNCHANGED <<exit_status, fault>>
                     ELSE Exits(1, "check_prerequisites", "SystemExit")
    /\ UNCHANGED <<app_config, app_vars>>
    /\ MainFrame

\* if not skip_checks and not check_prerequisites(): sys.exit(1)
\* SystemExit is not an Exception: neither handler of main takes it.
CheckPrerequisites ==
    /\ main_pc = "check_prerequisites"
    /\ IF argv.skip_checks
       THEN /\ main_pc' = "load_config"
            /\ UNCHANGED <<started, compat, exit_status, fault>>
       ELSE /\ started' = started \cup {"check_prerequisites"}
            /\ \/ /\ MainRaises("check_prerequisites", "KeyboardInterrupt")
                  /\ UNCHANGED compat
               \/ /\ compat' = IF check_root_privileges
                                THEN <<check_system_compatibility>>
                                ELSE <<>>
                  /\ IF check_prerequisites
                     THEN /\ main_pc' = "load_config"
                          /\ UNCHANGED <<exit_status, fault>>
                     ELSE Exits(1, "check_prerequisites", "SystemExit")
    /\ UNCHANGED <<app_config, app_vars>>
    /\ MainFrame

\* config_manager.load_config(config) when --config was given, which
\* raises for a file it cannot read or validate and else returns what the
\* file says (dry_run either way); get_default_config() otherwise.
LoadConfig ==
    /\ main_pc = "load_config"
    /\ started' = started \cup {"load_config"}
    /\ \/ /\ main_pc' = "run_tui"
          /\ IF argv.config
             THEN \E d \in BOOLEAN : app_config' = <<[dry_run |-> d]>>
             ELSE app_config' = <<[dry_run |-> AppConfig.dry_run]>>
          /\ UNCHANGED <<exit_status, fault>>
       \/ /\ argv.config
          /\ MainRaises("load_config", "Exception")
          /\ UNCHANGED app_config
       \/ /\ MainRaises("load_config", "KeyboardInterrupt")
          /\ UNCHANGED app_config
    /\ UNCHANGED <<compat, app_vars>>
    /\ MainFrame

\* Mutant of RunTui: the flag is only applied when it is set, so a
\* configuration file can turn the dry run on.
RunTui_ConfigWins ==
    /\ main_pc = "run_tui"
    /\ main_pc' = "tui running"
    /\ started' = started \cup {"run_tui"}
    /\ app_config' = <<[dry_run |-> argv.dry_run \/ app_config[1].dry_run]>>
    /\ dry_run_mode' = app_config'[1].dry_run
    /\ UNCHANGED <<app_current_step, total_steps, installation_active,
                   screen, status_text, exited, compat, exit_status, fault>>
    /\ MainFrame

\* app_config.dry_run = dry_run; app = GentooUIApp(config=app_config),
\* whose __init__ copies config.dry_run into dry_run_mode;
\* asyncio.run(app.run_async()) starts the application.
RunTui ==
    /\ main_pc = "run_tui"
    /\ main_pc' = "tui running"
    /\ started' = started \cup {"run_tui"}
    /\ app_config' = <<[dry_run |-> argv.dry_run]>>
    /\ dry_run_mode' = app_config'[1].dry_run
    /\ UNCHANGED <<app_current_step, total_steps, installation_active,
                   screen, status_text, exited, compat, exit_status, fault>>
    /\ MainFrame

\* asyncio.run(app.run_async()) ends: the application has exited and the
\* call returns, or an exception leaves it.  Leaving main's body without
\* an exception is exit status 0.
TuiEnds ==
    /\ main_pc = "tui running"
    /\ \/ Exits(0, "none", "none")
       \/ \E kind \in Interrupts : MainRaises("run_tui", kind)
    /\ UNCHANGED <<started, compat, app_config, app_vars>>
    /\ MainFrame

InitMain ==
    /\ steps = <<>>
    /\ guarded = TRUE
    /\ progress_callback = NoSink
    /\ current_step = NoStep
    /\ pc = "idle"
    /\ i = 0
    /\ result = None
    /\ events = <<>>
    /\ calls_log = <<>>
    /\ fwd = 0
    /\ prereq = <<>>
    /\ AppConstructed
    /\ CmdIdle
    /\ MainIdle
    /\ ConfigIdle
    /\ OverlapIdle
    /\ DiskIdle
    /\ euid \in {0, 1000}
    /\ platform_system \in Platforms
    /\ machine \in Machines
    /\ memory_total \in MemoryTotals
    /\ which_installed \in BOOLEAN
    /\ on_path \in SUBSET required_tools

NextMain ==
    \/ main
    \/ setup_logging
    \/ CheckPrerequisites
    \/ LoadConfig
    \/ RunTui
    \/ TuiEnds

SpecMain == InitMain /\ [][NextMain]_vars

\* A session: main with the application it starts.  While
\* asyncio.run(app.run_async()) has not ended, the screens fire their
\* handlers.
InitSession ==
    /\ steps = <<>>
    /\ guarded = TRUE
    /\ progress_callback = NoSink
    /\ current_step = NoStep
    /\ pc = "idle"
    /\ i = 0
    /\ result = None
    /\ events = <<>>
    /\ calls_log = <<>>
    /\ fwd = 0
    /\ prereq = <<>>
    /\ AppConstructed
    /\ CmdIdle
    /\ UtilIdle

NextSession ==
    \/ NextMain
    \/ main_pc = "tui running" /\ NextWizard

SpecSession == InitSession /\ [][NextSession]_vars

(***************************************************************************)
(* core/config.py: ConfigManager                                           *)
(***************************************************************************)
Sections == {"disk", "system"}
LogLevels == {"DEBUG", "INFO", "WARNING", "ERROR"}
PartitionSchemes == {"gpt", "mbr"}
RootFilesystems == {"ext4", "xfs", "btrfs"}

\* The fields the marshmallow schemas declare: AppConfigSchema declares
\* no field for the system section ("... other nested schemas").
AppConfigSchema == {"dry_run", "log_level", "disk"}
DiskConfigSchema == {"target_disk", "partition_scheme", "root_filesystem"}

\* The validate= function of a field, where it has one.
Validates(key, value) ==
    CASE key = "log_level" -> value \in LogLevels
      [] key = "partition_scheme" -> value \in PartitionSchemes
      [] key = "root_filesystem" -> value \in RootFilesystems
      [] OTHER -> TRUE

\* schema.dump(config): the declared fields of the object, nested
\* sections by their own schema; an attribute without a field is left out.
dump(obj) ==
    [k \in AppConfigSchema |->
        IF k = "disk"
        THEN [f \in DiskConfigSchema |-> obj.disk[f]]
        ELSE obj[k]]

\* DiskConfigSchema().load(data): no configuration for an undeclared key
\* or a value its validator rejects, else DiskConfig(**data), the given
\* keys over the defaults.
LoadDisk(data) ==
    IF \/ DOMAIN data \ DiskConfigSchema # {}
       \/ \E k \in DOMAIN data : ~Validates(k, data[k])
    THEN <<>>
    ELSE << [f \in DOMAIN DiskConfig |->
                IF f \in DOMAIN data THEN data[f] ELSE DiskConfig[f]] >>

\* AppConfigSchema().load(data): ValidationError (no configuration) for a
\* key without a field (marshmallow raises on unknown fields), for a value
\* its validator rejects and for a nested section that does not load;
\* else AppConfig(**data), the given keys over the defaults.
load(data) ==
    IF \/ DOMAIN data \ AppConfigSchema # {}
       \/ \E k \in DOMAIN data \ Sections : ~Validates(k, data[k])
       \/ "disk" \in DOMAIN data /\ LoadDisk(data.disk) = <<>>
    THEN <<>>
    ELSE << [f \in DOMAIN AppConfig |->
                IF f \notin DOMAIN data THEN AppConfig[f]
                ELSE IF f = "disk" THEN LoadDisk(data.disk)[1]
                     ELSE data[f]] >>

\* yaml.safe_dump writes the keys of a mapping in sorted order, a nested
\* mapping as an indented block; yaml.safe_load reads the mapping back.
\* The text is modelled as the sequence of its entries.
KeyOrder ==
    <<"disk", "dry_run", "hostname", "log_level", "partition_scheme",
      "root_filesystem", "system", "target_disk">>

RECURSIVE safe_dump(_)
safe_dump(data) ==
    LET keys == SelectSeq(KeyOrder, LAMBDA k : k \in DOMAIN data)
    IN  [n \in 1..Len(keys) |->
            <<keys[n], IF keys[n] \in Sections
                       THEN safe_dump(data[keys[n]])
                       ELSE data[keys[n]]>>]

RECURSIVE safe_load(_)
safe_load(text) ==
    [k \in {text[n][1] : n \in 1..Len(text)} |->
        LET n == CHOOSE n \in 1..Len(text) : text[n][1] = k
        IN  IF k \in Sections THEN safe_load(text[n][2]) ELSE text[n][2]]

\* merge_configs.deep_merge: isinstance(..., dict) holds of the values of
\* the section keys.
RECURSIVE deep_merge(_, _)
deep_merge(base, override) ==
    [k \in DOMAIN base \cup DOMAIN override |->
        IF k \notin DOMAIN override THEN base[k]
        ELSE IF k \in DOMAIN base /\ k \in Sections
             THEN deep_merge(base[k], override[k])
             ELSE override[k]]

\* The configurations and the raw data the operations are called with.
HostNames == {"gentoo", "test-host"}
Disks == {"/dev/sda", "/dev/sdb"}

Configs ==
    [dry_run : BOOLEAN, log_level : {"DEBUG", "INVALID_LEVEL"},
     disk : [target_disk : Disks, partition_scheme : {"mbr"},
             root_filesystem : {"xfs"}],
     system : [hostname : HostNames]]

Optional(key, values) == {EmptyDict} \cup {key :> v : v \in values}

DiskData ==
    {a @@ b :
        a \in Optional("target_disk", {"/dev/sdb"}),
        b \in Optional("partition_scheme", {"bsd"})
               \cup Optional("root_filesystem", {"zfs"})}

ConfigData ==
    {a @@ b @@ c @@ d :
        a \in Optional("dry_run", {TRUE}),
        b \in Optional("log_level", {"WARNING", "INVALID_LEVEL"}),
        c \in Optional("disk", DiskData),
        d \in Optional("system", {"hostname" :> "test-host"})}

ConfigFrame ==
    UNCHANGED <<steps, guarded, progress_callback, current_step, pc, i,
                result, events, calls_log, fwd, gate_vars, app_vars,
                cmd_vars, main_vars, config, overlap_vars, disk_vars>>

Answers(op, answer) ==
    /\ config_op' = op
    /\ loaded' = answer
    /\ config_error' = IF answer = <<>> THEN "ValidationError" ELSE "none"

\* save_config(config, config_path)
save_config ==
    /\ config_file' = safe_dump(dump(config))
    /\ config_op' = "save_config"
    /\ loaded' = <<>>
    /\ config_error' = "none"
    /\ UNCHANGED config_data
    /\ ConfigFrame

\* load_config(config_path): an empty file gives the default
\* configuration, any other file what the schema loads from it.
load_config ==
    /\ Answers("load_config",
               IF config_file = EmptyFile THEN <<AppConfig>>
               ELSE load(safe_load(config_file)))
    /\ UNCHANGED <<config_data, config_file>>
    /\ ConfigFrame

\* validate_config(config_data)
validate_config ==
    /\ \E data \in ConfigData :
        /\ config_data' = data
        /\ Answers("validate_config", load(data))
    /\ UNCHANGED config_file
    /\ ConfigFrame

\* merge_configs(config, override_data)
merge_configs ==
    /\ \E override_data \in ConfigData :
        /\ config_data' = override_data
        /\ Answers("merge_configs",
                   load(deep_merge(dump(config), override_data)))
    /\ UNCHANGED config_file
    /\ ConfigFrame

InitConfig ==
    /\ steps = <<>>
    /\ guarded = TRUE
    /\ progress_callback = NoSink
    /\ current_step = NoStep
    /\ pc = "idle"
    /\ i = 0
    /\ result = None
    /\ events = <<>>
    /\ calls_log = <<>>
    /\ fwd = 0
    /\ prereq = <<>>
    /\ AppConstructed
    /\ CmdIdle
    /\ MainIdle
    /\ OverlapIdle
    /\ DiskIdle
    /\ euid = 0
    /\ platform_system = "Linux"
    /\ machine = "x86_64"
    /\ memory_total = 1024 * 1024 * 1024
    /\ which_installed = TRUE
    /\ on_path = required_tools
    /\ config \in Configs
    /\ config_data = EmptyDict
    /\ config_file = EmptyFile
    /\ config_op = "none"
    /\ loaded = <<>>
    /\ config_error = "none"

NextConfig ==
    \/ save_config
    \/ load_config
    \/ validate_config
    \/ merge_configs

SpecConfig == InitConfig /\ [][NextConfig]_vars

(***************************************************************************)
(* Vocabulary of the properties.                                           *)
(***************************************************************************)
Returned == pc = "returned"

\* The events run_full_installation emits itself, as opposed to those a
\* stage forwards.
OwnStatuses == {"Starting...", "Completed", "Failed", "Error"}
TerminalStatuses == {"Completed", "Failed", "Error"}
IsOwn(e) == e.status \in OwnStatuses
IsTerminal(e) == e.status \in TerminalStatuses

OwnEvents == SelectSeq(events, IsOwn)

\* The events a sink received (the callback was called with them).
Delivered(e) == e.sink # NoSink
Received == SelectSeq(events, Delivered)

\* Stage and status of each event of a sequence.
Shape(evs) == [n \in DOMAIN evs |-> <<evs[n].step, evs[n].status>>]

\* No call of a sink raised in this run.
NoRaise == \A n \in DOMAIN events : ~events[n].raised

\* Every event of the run reached a registered sink, and the sink returned
\* normally from each call: the sink is a recorder of the run.
Recorded ==
    /\ NoRaise
    /\ \A n \in DOMAIN events : Delivered(events[n])

\* The stage operations invoked so far in this run, in order.
Invoked == SelectSeq(calls_log, LAMBDA c : c.op = "call")
Rets == SelectSeq(calls_log, LAMBDA c : c.op = "ret")

\* What the stage operation at position k yields when its executor runs to
\* its end.
Yields(k) == StageResult(steps[k])

AllSucceed == \A k \in DOMAIN steps : Yields(k) = "true"

\* Position of the first stage that returns false or raises, 0 if none.
FirstFailing ==
    IF AllSucceed THEN 0
    ELSE CHOOSE k \in DOMAIN steps :
            /\ Yields(k) # "true"
            /\ \A j \in 1..(k - 1) : Yields(j) = "true"

\* start(1), done(1), ..., start(n), done(n)
SuccessShape(n) ==
    [m \in 1..(2 * n) |->
        IF m % 2 = 1 THEN <<StepId((m + 1) \div 2), "Starting...">>
                     ELSE <<StepId(m \div 2), "Completed">>]

FailShape(k) ==
    SuccessShape(k - 1) \o
        << <<StepId(k), "Starting...">>,
           <<StepId(k), IF Yields(k) = "false" THEN "Failed" ELSE "Error">> >>

InFlight == Len(Invoked) - Len(Rets)

C3_Sequential ==
    /\ \A n \in DOMAIN calls_log :
          IF n % 2 = 1
          THEN /\ calls_log[n].op = "call"
               /\ calls_log[n].stage = (n + 1) \div 2
          ELSE /\ calls_log[n].op = "ret"
               /\ calls_log[n].stage = n \div 2
               /\ n < Len(calls_log) => calls_log[n].value = "true"
    /\ InFlight \in {0, 1}
    /\ InFlight = 1 <=> pc = "in_stage"

C3_Witness ==
    /\ pc = "in_stage"
    /\ i = 3
    /\ Len(calls_log) = 5

(***************************************************************************)
(* C4  When a stage operation raises, run_full_installation emits, as the  *)
(* last event of the run, one event of that stage with status "Error",     *)
(* progress 0.0 and an error text that carries the exception's message;    *)
(* it invokes no further stage and returns False.  A stage operation that  *)
(* returns false differs only in the event: status "Failed", with the      *)
(* same progress, the same return value and no further stage either.       *)
(***************************************************************************)
LastRet == calls_log[Len(calls_log)]
ErrorEvents == SelectSeq(events, LAMBDA e : e.status = "Error")
FailedEvents == SelectSeq(events, LAMBDA e : e.status = "Failed")

C4_StageRaises ==
    (Returned /\ calls_log # <<>>) =>
        /\ (LastRet.op = "ret" /\ LastRet.value = "raise") =>
              LET e == events[Len(events)] IN
              /\ result = False
              /\ Len(ErrorEvents) = 1
              /\ FailedEvents = <<>>
              /\ e.status = "Error"
              /\ e.step = StepId(LastRet.stage)
              /\ e.progress = 0
              /\ e.error = <<"Exception in step", StepName(LastRet.stage),
                            LastRet.msg>>
        /\ (LastRet.op = "ret" /\ LastRet.value = "false") =>
              /\ result = False
              /\ Len(FailedEvents) = 1
              /\ FailedEvents[1].step = StepId(LastRet.stage)
              /\ FailedEvents[1].progress = 0

C4_Witness ==
    /\ Returned
    /\ Len(calls_log) = 4
    /\ LastRet.op = "ret" /\ LastRet.value = "raise"
    /\ LastRet.msg = StageFault
    /\ Len(steps) = 3

(***************************************************************************)
(* C5  No exception leaves run_full_installation: whatever the stages do   *)
(* and whichever calls of the sink raise, the call never ends by raising,  *)
(* and when it has ended it has returned True or False.                    *)
(***************************************************************************)
C5_NoEscape ==
    /\ pc # "raised"
    /\ Returned => result \in {True, False}

\* The sink raised on the "Error" event itself, inside the inner handler.
C5_Witness ==
    /\ Returned
    /\ events # <<>>
    /\ events[Len(events)].status = "Error"
    /\ events[Len(events)].raised
    /\ result = False

(***************************************************************************)
(* C6  At the end of a run, for every stage whose "Starting..." event was  *)
(* handed to a sink, the sinks have received exactly one terminal event    *)
(* of that stage ("Completed", "Failed" or "Error"), and it is the last    *)
(* event received for that stage.                                          *)
(***************************************************************************)
ReceivedOf(k) == SelectSeq(Received, LAMBDA e : e.step = StepId(k))

Started(k) ==
    \E n \in DOMAIN Received :
        Received[n].step = StepId(k) /\ Received[n].status = "Starting..."

C6_OneTerminal ==
    Returned =>
        \A k \in DOMAIN steps :
            Started(k) =>
                LET evs == ReceivedOf(k) IN
                /\ Len(SelectSeq(evs, IsTerminal)) = 1
                /\ IsTerminal(evs[Len(evs)])

(***************************************************************************)
(* C7  get_current_step names the stage whose operation is executing, and  *)
(* is None whenever the orchestrator is idle: before any run and after     *)
(* run_full_installation has returned.                                     *)
(***************************************************************************)
C7_CurrentStep ==
    /\ pc = "in_stage" => get_current_step = StepId(i)
    /\ pc \in {"idle", "returned"} => get_current_step = NoStep

(***************************************************************************)
(* C8  Every event that carries an error message has progress 0.0, be it   *)
(* emitted by the orchestrator or forwarded from a stage.                  *)
(***************************************************************************)
C8_ErrorProgress ==
    \A n \in DOMAIN events :
        events[n].error # NoError => events[n].progress = 0

C8_Witness ==
    \E n \in DOMAIN events, m \in DOMAIN events :
        /\ events[n].error # NoError
        /\ events[m].status = "Working..." /\ events[m].progress # 0

C10_AtMostOnce ==
    /\ \A m \in DOMAIN Invoked, n \in DOMAIN Invoked :
          m # n => Invoked[m].stage # Invoked[n].stage
    /\ \A m \in DOMAIN calls_log, n \in DOMAIN calls_log :
          (/\ m < n
           /\ calls_log[m].op = "ret" /\ calls_log[m].value = "true"
           /\ calls_log[n].op = "call")
            => calls_log[n].stage # calls_log[m].stage

C10_Witness ==
    /\ Returned
    /\ Len(Invoked) = 3
    /\ result = True

(***************************************************************************)
(* C11  set_progress_callback is last-write-wins without fan-out.  Every   *)
(* event emitted in a step is handed to one sink, the callback that was    *)
(* registered last before the step (a sink registered in the middle of a   *)
(* run takes over from the next event on); and, the sinks being numbered   *)
(* in the order of their registration, the receivers of the events of a    *)
(* run never go back to an earlier number: a replaced sink receives        *)
(* nothing further.                                                        *)
(***************************************************************************)
\* The events a step emits.  A step taken while a stage is in flight adds
\* to the events of the run; a call of run_full_installation starts the
\* record afresh; set_progress_callback emits nothing.
NewEvents ==
    IF pc = "in_stage"
    THEN SubSeq(events', Len(events) + 1, Len(events'))
    ELSE IF progress_callback' = progress_callback THEN events' ELSE <<>>

C11_LastWriteWins ==
    [][/\ \A n \in DOMAIN NewEvents :
             NewEvents[n].sink = progress_callback
       /\ \A m \in DOMAIN events', n \in DOMAIN events' :
             m < n => events'[m].sink <= events'[n].sink
       /\ progress_callback' # progress_callback =>
             events' = events]_vars

\* Two events of one stage, the first received by sink 1 and the second,
\* after a replacement in the middle of the stage, by sink 2.
C11_Witness ==
    \E n \in DOMAIN events :
        /\ n > 1
        /\ events[n - 1].sink = 1
        /\ events[n].sink = 2
        /\ events[n - 1].step = events[n].step
        /\ progress_callback = 2

(***************************************************************************)
(* C12  With dry_run true, validate_prerequisites returns True whatever    *)
(* the effective user, the target disk and the mount point are (missing,   *)
(* empty, non-empty, or impossible to list), and a non-empty mount point   *)
(* shows only as a logged warning.                                         *)
(***************************************************************************)
Checked == prereq # <<>>
LastCheck == prereq[1]

C12_DryRunPasses ==
    (Checked /\ LastCheck.dry_run) =>
        /\ LastCheck.result = True
        /\ LastCheck.warned <=> LastCheck.mount = "nonempty"

(***************************************************************************)
(* C13  With dry_run false, validate_prerequisites returns False when the  *)
(* process is not root or the target disk does not exist, and True         *)
(* otherwise; the state of the mount point never changes the result; and   *)
(* the effective user is asked first: for a process that is not root the   *)
(* disk is not looked at.                                                  *)
(***************************************************************************)
C13_RealRun ==
    (Checked /\ ~LastCheck.dry_run) =>
        /\ LastCheck.result =
              (IF LastCheck.is_root /\ LastCheck.disk_exists
               THEN True ELSE False)
        /\ LastCheck.consulted[1] = "geteuid"
        /\ ~LastCheck.is_root => LastCheck.consulted = <<"geteuid">>

(***************************************************************************)
(* C14  The gate is advisory.  Whenever run_full_installation is not       *)
(* running and the stage list is not empty, a call of it goes on to the    *)
(* first stage, whether validate_prerequisites was never called, returned  *)
(* True, returned False or raised; and a call of validate_prerequisites    *)
(* changes neither the current stage, nor the registered sink, nor the     *)
(* stage list, nor the position of a run in progress.                      *)
(***************************************************************************)
StartsFirstStage ==
    /\ Call
    /\ pc' = "in_stage"
    /\ i' = 1
    /\ current_step' = StepId(1)

C14_AdvisoryGate ==
    /\ []((pc \in {"idle", "returned"} /\ steps # <<>>) =>
            ENABLED StartsFirstStage)
    /\ [][prereq' # prereq =>
            UNCHANGED <<current_step, progress_callback, steps, pc, i>>]_vars

\* A run went through all its stages and returned True while the last
\* validation on record said False.
C14_Witness ==
    /\ Checked
    /\ LastCheck.result = False
    /\ Returned
    /\ result = True
    /\ Len(steps) = 3
    /\ progress_callback # NoSink

(***************************************************************************)
(* C15  Whatever sequence of advance_step and previous_step calls is made, *)
(* alone or through the handlers, the wizard index stays in 0..N-1 with    *)
(* N = 7; at index N-1 a call of advance_step changes nothing, and at      *)
(* index 0 a call of previous_step changes nothing.                        *)
(***************************************************************************)
C15_IndexInRange ==
    /\ total_steps = TotalSteps
    /\ app_current_step \in 0..(total_steps - 1)
    /\ app_current_step = total_steps - 1 =>
          ~ENABLED (AdvanceCall /\ app_vars' # app_vars)
    /\ app_current_step = 0 =>
          ~ENABLED (PreviousCall /\ app_vars' # app_vars)

\* The index is at its maximum while the welcome screen is still shown:
\* advance_step was called on its own, up to the limit.
C15_Witness ==
    /\ app_current_step = total_steps - 1
    /\ screen = "welcome"

(***************************************************************************)
(* C16  A call of advance_step below N-1 adds exactly one to the index, a  *)
(* call of previous_step above 0 takes exactly one off; no step of the     *)
(* application changes the index in any other way, and a step that changes *)
(* the index leaves total_steps, dry_run_mode, installation_active and the *)
(* orchestrator's current stage as they were.                              *)
(***************************************************************************)
C16_IndexSteps ==
    /\ [](Running =>
            /\ app_current_step < total_steps - 1 =>
                  ENABLED (AdvanceCall /\
                           app_current_step' = app_current_step + 1)
            /\ app_current_step > 0 =>
                  ENABLED (PreviousCall /\
                           app_current_step' = app_current_step - 1)
            /\ ~ENABLED (AdvanceCall /\
                         app_current_step' \notin
                            {app_current_step, app_current_step + 1})
            /\ ~ENABLED (PreviousCall /\
                         app_current_step' \notin
                            {app_current_step, app_current_step - 1}))
    /\ [][app_current_step' # app_current_step =>
            /\ \/ /\ app_current_step < total_steps - 1
                  /\ app_current_step' = app_current_step + 1
               \/ /\ app_current_step > 0
                  /\ app_current_step' = app_current_step - 1
            /\ UNCHANGED <<total_steps, dry_run_mode, installation_active,
                           current_step>>]_vars

\* The wizard has moved while a stage of the orchestrator is in flight.
C16_Witness ==
    /\ app_current_step = 2
    /\ screen = "configuration"
    /\ dry_run_mode
    /\ pc = "in_stage"
    /\ current_step = StepId(2)

(***************************************************************************)
(* C17  The wizard starts at index 0.  Reaching index N-1 neither ends     *)
(* the application nor reports completion: the completion message appears  *)
(* only through on_installation_complete, fired from the finalization      *)
(* screen, and that handler leaves the index at N-1.                       *)
(***************************************************************************)
CompletionMessage == "Installation completed successfully!"
CompletionSignalled == status_text = CompletionMessage

C17_Completion ==
    /\ app_current_step = 0
    /\ ~CompletionSignalled
    /\ [](CompletionSignalled =>
            /\ screen = "finalization"
            /\ app_current_step = total_steps - 1)
    /\ [][/\ app_current_step' # app_current_step =>
               /\ exited' = exited
               /\ ~CompletionSignalled'
          /\ (CompletionSignalled' /\ ~CompletionSignalled) =>
               /\ screen = "finalization"
               /\ app_current_step' = app_current_step
               /\ installation_active' = FALSE]_vars

C17_Witness ==
    /\ CompletionSignalled
    /\ app_current_step = total_steps - 1
    /\ ~exited

(***************************************************************************)
(* C18  Every continue transition of the wizard (on_welcome_continue ...   *)
(* on_bootloader_continue) makes the orchestrator run its next stage: the  *)
(* step that advances the index and changes the screen also puts the       *)
(* orchestrator's next stage in flight.                                    *)
(***************************************************************************)
C18_Lockstep ==
    [][(app_current_step' = app_current_step + 1 /\ screen' # screen) =>
          /\ pc' = "in_stage"
          /\ current_step' = current_step + 1]_vars

(***************************************************************************)
(* C19  While the wizard is driven by the handlers its screens fire, the   *)
(* screen displayed is the one at position current_step of the step list,  *)
(* and every step that changes the index shows the screen of the step      *)
(* entered together with that screen's status text.                        *)
(***************************************************************************)
\* The status text each show_*_screen sets.
ScreenStatus(sc) ==
    CASE sc = "welcome" ->
            "Welcome - Review system information and configuration"
      [] sc = "disk_setup" ->
            "Disk Setup - Configure partitions and file systems"
      [] sc = "stage3" -> "Stage3 - Download and extract base system"
      [] sc = "configuration" ->
            "Configuration - Set up system configuration"
      [] sc = "kernel" -> "Kernel - Configure and compile kernel"
      [] sc = "bootloader" ->
            "Bootloader - Install and configure bootloader"
      [] sc = "finalization" ->
            "Finalization - Complete installation and cleanup"

C19_ScreenFollowsIndex ==
    /\ [](screen # NoScreen => screen = app_steps[app_current_step + 1])
    /\ [][app_current_step' # app_current_step =>
            /\ screen' = app_steps[app_current_step' + 1]
            /\ status_text' = ScreenStatus(screen')]_vars

\* The Stage3 screen is displayed at index 2, with its status text.
C19_Witness ==
    /\ screen = "stage3"
    /\ app_current_step = 2
    /\ status_text = ScreenStatus("stage3")
    /\ ~exited

(***************************************************************************)
(* C20  When the timeout of a call expires while the process is still      *)
(* running, the call ends by returning (-1, "", "Command timed out"),      *)
(* never by raising, and it ends only once the process has been killed     *)
(* and reaped: at the return the process is released.                      *)
(***************************************************************************)
TimedOutTriple == Returns(Sentinel, "", "Command timed out")

C20_TimeoutKills ==
    [][(/\ cmd_pc \in {"timed out", "wait"}
        /\ cmd_pc' = "done"
        /\ expiry = "running") =>
          /\ cmd_result' = TimedOutTriple
          /\ proc' = "released"]_vars

\* ---------------------------------------------------------------------
\* C21  A call of run_command that could not launch its process ends by
\* returning (-1, "", message): it never raises, and its result has the
\* shape of the timed-out result (sentinel code, empty stdout, a message).
NotLaunched == cmd_pc = "done" /\ proc = NoProcess /\ cmd_result # <<>>

FailureShape(r) ==
    /\ r.kind = "return"
    /\ r.code = Sentinel
    /\ r.stdout = ""
    /\ r.stderr # ""

C21_LaunchFailure ==
    NotLaunched =>
        /\ FailureShape(cmd_result[1])
        /\ FailureShape(TimedOutTriple[1])

\* ---------------------------------------------------------------------
\* C22  When the process completes before the timeout (or no timeout was
\* given), run_command returns exactly the exit code of the process, zero
\* or not, with the stdout and stderr it captured; and a call spawns
\* exactly one process: the count of spawned processes changes only at the
\* call itself, by one.
Completes == cmd_pc = "communicate" /\ cmd_pc' = "done"

CapturedText(r, bytes) ==
    IF capture_output /\ Decodable(bytes)
    THEN r = Decode(bytes)
    ELSE capture_output \/ r = ""

C22_ExitCodeReturned ==
    /\ [][Completes =>
            /\ cmd_result'[1].kind = "return"
            /\ cmd_result'[1].code = returncode[1]
            /\ CapturedText(cmd_result'[1].stdout, pipes[1])
            /\ CapturedText(cmd_result'[1].stderr, pipes[2])]_vars
    /\ [][spawned' # spawned =>
            /\ cmd_pc \in {"idle", "done"}
            /\ proc' = "running"
            /\ spawned' = spawned + 1]_vars

\* ---------------------------------------------------------------------
\* C23  As stated: main exits with status 1 when the prerequisite check
\* fails without --skip-checks or when an error occurs during
\* configuration loading or the TUI run, with 130 on KeyboardInterrupt,
\* and with 0 otherwise; when the prerequisite check fails, neither
\* configuration loading nor the TUI is started.
PrereqFailed ==
    /\ ~argv.skip_checks
    /\ "check_prerequisites" \in started
    /\ ~check_prerequisites

ErrorDuring(phases) == fault.kind = "Exception" /\ fault.phase \in phases

NothingStarted == started \cap {"load_config", "run_tui"} = {}

C23_ExitStatus ==
    /\ main_pc = "exited" =>
         exit_status =
           IF fault.kind = "KeyboardInterrupt" THEN <<130>>
           ELSE IF PrereqFailed \/ ErrorDuring({"load_config", "run_tui"})
                THEN <<1>>
                ELSE <<0>>
    /\ PrereqFailed => NothingStarted

\* C23  Amended: a command line that click rejects ends with status 2
\* before main's body is entered.  Otherwise main exits with 130 on
\* KeyboardInterrupt, with 1 when the prerequisite check fails without
\* --skip-checks or when an error occurs anywhere in main's body (the
\* logging set-up included, not only configuration loading and the TUI
\* run), and with 0 otherwise; when the prerequisite check fails, neither
\* configuration loading nor the TUI is started.
C23_ExitStatusAmended ==
    /\ main_pc = "exited" =>
         exit_status =
           IF ~argv.usage THEN <<2>>
           ELSE IF fault.kind = "KeyboardInterrupt" THEN <<130>>
           ELSE IF PrereqFailed
                   \/ ErrorDuring({"setup_logging", "load_config", "run_tui"})
                THEN <<1>>
                ELSE <<0>>
    /\ PrereqFailed => NothingStarted

\* main has exited with status 1 on a failed prerequisite check.
C23_Witness ==
    /\ main_pc = "exited"
    /\ PrereqFailed
    /\ fault.kind = "SystemExit"
    /\ exit_status = <<1>>

\* ---------------------------------------------------------------------
\* C27  check_system_compatibility answers False when the platform is not
\* Linux or one of the required tools (fdisk, mkfs.ext4, mount, wget, tar,
\* chroot) is unavailable, which is to say not found by "which", and True
\* otherwise; an unsupported architecture and less than 1GB of memory are
\* logged as warnings and do not change the answer.
Found(tool) == which_installed /\ tool \in on_path

C27_Compatibility ==
    compat # <<>> =>
        /\ compat[1].result =
              (/\ platform_system = "Linux"
               /\ \A tool \in required_tools : Found(tool))
        /\ platform_system = "Linux" =>
              /\ "architecture" \in compat[1].warnings
                    <=> machine \notin supported_archs
              /\ "memory" \in compat[1].warnings
                    <=> memory_total < MinMemory

\* An unsupported machine with less than 1GB was checked and accepted,
\* with both warnings.
C27_Witness ==
    /\ compat # <<>>
    /\ machine \notin supported_archs
    /\ memory_total < MinMemory
    /\ compat[1].result
    /\ compat[1].warnings = {"architecture", "memory"}

\* ---------------------------------------------------------------------
\* C24  Round trip: for every configuration c whose fields are in their
\* allowed sets, load_config(p) after save_config(c, p) yields a
\* configuration equal to c on every field, the fields of nested sections
\* (disk.target_disk, system.hostname) included.
Valid(c) ==
    /\ c.log_level \in LogLevels
    /\ c.disk.partition_scheme \in PartitionSchemes
    /\ c.disk.root_filesystem \in RootFilesystems

C24_RoundTrip ==
    (/\ config_op = "load_config"
     /\ config_file # EmptyFile
     /\ Valid(config)) => loaded = <<config>>

\* ---------------------------------------------------------------------
\* C25  merge_configs(base, override), for a base and an override whose
\* values are in their allowed sets, returns the configuration that has
\* the override's value at every key the override gives and the base's
\* value at every other key, nested sections key by key; base is not
\* modified.
AllAllowed(data) ==
    /\ \A k \in DOMAIN data \ Sections : Validates(k, data[k])
    /\ \A sec \in DOMAIN data \cap Sections :
          \A k \in DOMAIN data[sec] : Validates(k, data[sec][k])

Overlaid(base, override) ==
    [f \in DOMAIN base |->
        IF f \notin DOMAIN override THEN base[f]
        ELSE IF f \in Sections
             THEN [g \in DOMAIN base[f] |->
                     IF g \in DOMAIN override[f]
                     THEN override[f][g] ELSE base[f][g]]
             ELSE override[f]]

C25_Merge ==
    /\ []((/\ config_op = "merge_configs"
           /\ Valid(config)
           /\ AllAllowed(config_data))
             => loaded = <<Overlaid(config, config_data)>>)
    /\ [][config' = config]_vars

\* ---------------------------------------------------------------------
\* C26  validate_config returns a configuration for data whose fields are
\* all in their allowed sets, and raises a validation error, returning no
\* configuration, when log_level, disk.partition_scheme or
\* disk.root_filesystem is outside its allowed set.
C26_Validation ==
    config_op = "validate_config" =>
        IF AllAllowed(config_data)
        THEN loaded # <<>> /\ config_error = "none"
        ELSE loaded = <<>> /\ config_error = "ValidationError"

\* ---------------------------------------------------------------------
\* C28  The sink does not influence control flow.  Whenever a run has
\* returned without a call of a sink having raised, be it with no sink
\* registered or with one that returns normally, the stages invoked and
\* the value returned are those the stage outcomes alone determine: the
\* stages up to the first failing one (all of them if none fails), in
\* list order, and True exactly when none fails.  An event emitted while
\* no sink is registered is dropped: nothing is called, nothing raises.
ExpectedInvoked == IF AllSucceed THEN Len(steps) ELSE FirstFailing

C28_SinkIndependent ==
    /\ (Returned /\ NoRaise) =>
          /\ [n \in DOMAIN Invoked |-> Invoked[n].stage]
                = [n \in 1..ExpectedInvoked |-> n]
          /\ result = IF AllSucceed THEN True ELSE False
    /\ \A n \in DOMAIN events : ~Delivered(events[n]) => ~events[n].raised

\* A run without any sink has returned False at its second stage, a third
\* stage left alone, all its events dropped.
C28_Witness ==
    /\ Returned
    /\ events # <<>>
    /\ \A n \in DOMAIN events : ~Delivered(events[n])
    /\ Len(steps) = 3
    /\ FirstFailing = 2
    /\ result = False

\* ---------------------------------------------------------------------
\* C29  If the sink raises while receiving the "Starting..." event of
\* stage k, the operation of stage k is never invoked, no later stage is
\* invoked, no further event is emitted, and run_full_installation
\* returns False with the current stage left at stage k.
StartRaised(n) == events[n].status = "Starting..." /\ events[n].raised

OwnNoRaise == \A n \in DOMAIN events : IsOwn(events[n]) => ~events[n].raised

\* The executor of the stage at position k was ended by an exception: its
\* own, or the sink's on an event it forwarded.
Faulted(k) ==
    /\ \E n \in DOMAIN Rets : Rets[n].stage = k
    /\ \/ steps[k] = "raise"
       \/ \E n \in DOMAIN events :
             /\ events[n].step = StepId(k)
             /\ ~IsOwn(events[n])
             /\ events[n].raised

C30_BuiltInStages ==
    guarded =>
        /\ \A n \in DOMAIN Rets : Rets[n].value # "raise"
        /\ OwnNoRaise =>
              /\ \A n \in DOMAIN events : events[n].status # "Error"
              /\ \A k \in DOMAIN steps :
                    (Returned /\ Faulted(k)) =>
                        /\ events[Len(events)].status = "Failed"
                        /\ events[Len(events)].step = StepId(k)
                        /\ result = False

\* A built-in stage whose executor raised was reported to a sink as
\* "Failed".
C30_Witness ==
    /\ guarded
    /\ Returned
    /\ OwnNoRaise
    /\ \E k \in DOMAIN steps : Faulted(k) /\ steps[k] = "raise"
    /\ events[Len(events)].status = "Failed"
    /\ Delivered(events[Len(events)])

\* ---------------------------------------------------------------------
\* C35  The dry-run mode the application runs in is the --dry-run flag:
\* main overwrites the dry_run of the configuration it loaded with the
\* flag before it constructs the application, whatever a configuration
\* file said, and from then on, through every handler of the wizard, the
\* configuration's dry_run and the wizard's dry_run_mode equal the flag.
TuiStarted == "run_tui" \in started

C35_DryRunIsFlag ==
    /\ [](TuiStarted =>
            /\ app_config = <<[dry_run |-> argv.dry_run]>>
            /\ dry_run_mode = argv.dry_run)
    /\ [][(main_pc = "run_tui" /\ main_pc' = "tui running") =>
            /\ app_config'[1].dry_run = argv.dry_run
            /\ dry_run_mode' = argv.dry_run]_vars

\* A session started with --config and without --dry-run has gone through
\* the wizard to its last screen in real mode.
C35_Witness ==
    /\ main_pc = "tui running"
    /\ argv.config
    /\ ~argv.dry_run
    /\ ~dry_run_mode
    /\ screen = "finalization"

\* ---------------------------------------------------------------------
\* C36  Unless --skip-checks is given, main gets past its prerequisite
\* check (loads the configuration, starts the TUI) only as root on a
\* compatible system, with or without --dry-run: a launch that is not
\* root, --dry-run included, ends the check with exit status 1 and never
\* constructs the application.  validate_prerequisites does not reject
\* that situation: in a dry run it does not ask for the user id and
\* answers for a non-root caller as it does for root, never with False.
PastCheck ==
    \/ main_pc \in {"load_config", "run_tui", "tui running"}
    \/ started \cap {"load_config", "run_tui"} # {}

CheckEnded == main_pc = "exited" /\ fault.phase = "check_prerequisites"

C36_ChecksBeforeTui ==
    /\ (PastCheck /\ ~argv.skip_checks) =>
          /\ euid = 0
          /\ platform_system = "Linux"
          /\ \A tool \in required_tools : Found(tool)
    /\ (euid # 0 /\ ~argv.skip_checks) =>
          /\ ~PastCheck
          /\ (CheckEnded /\ fault.kind # "KeyboardInterrupt") =>
                exit_status = <<1>>
    /\ \A disk_exists \in BOOLEAN, mount \in MountStates :
          LET r == PrereqCheck(TRUE, FALSE, disk_exists, mount)
          IN  /\ r = PrereqCheck(TRUE, TRUE, disk_exists, mount)
              /\ r.result # False
              /\ \A n \in DOMAIN r.consulted : r.consulted[n] # "geteuid"

\* A launch with --dry-run that is not root was ended by the check with
\* status 1.
C36_Witness ==
    /\ argv.dry_run
    /\ ~argv.skip_checks
    /\ euid # 0
    /\ CheckEnded
    /\ fault.kind = "SystemExit"
    /\ exit_status = <<1>>
    /\ ~TuiStarted

\* ---------------------------------------------------------------------
\* C37  installation_active is false in every reachable state of the
\* application: it is constructed false, no handler or method sets it
\* true, and on_installation_complete sets it to false.
Completed == status_text = "Installation completed successfully!"

C37_NeverActive ==
    /\ [](installation_active = FALSE)
    /\ [][installation_active' = installation_active]_vars
    /\ [][(~Completed /\ Completed') => installation_active' = FALSE]_vars

\* on_installation_complete has run, after an installation run of the
\* manager that failed.
C37_Witness ==
    /\ Completed
    /\ screen = "finalization"
    /\ installation_active = FALSE
    /\ result = False

\* ---------------------------------------------------------------------
\* C38  The finalization screen is absorbing: once the continue handlers,
\* each fired from the screen on display, have brought the index to N-1,
\* no handler lowers it or shows another screen.  Every other screen but
\* welcome has a back transition, which shows its predecessor and lowers
\* the index by one; welcome has none.
ScreenOrder == <<"welcome", "disk_setup", "stage3", "configuration",
                 "kernel", "bootloader", "finalization">>

ScreenIndex(s) == CHOOSE n \in DOMAIN ScreenOrder : ScreenOrder[n] = s

Back ==
    \/ on_back_to_welcome
    \/ on_back_to_disk_setup
    \/ on_back_to_stage3
    \/ on_back_to_configuration
    \/ on_back_to_kernel

Backwards ==
    /\ Handlers
    /\ \/ app_current_step' < app_current_step
       \/ screen' # screen

AtLast == screen = "finalization" /\ app_current_step = total_steps - 1

C38_FinalizationAbsorbing ==
    /\ [][AtLast => AtLast']_vars
    /\ [](AtLast => ~ENABLED Backwards)
    /\ [](screen = "welcome" => ~ENABLED Back)
    /\ []((Running /\ screen \in {"disk_setup", "stage3", "configuration",
                                  "kernel", "bootloader"}) =>
            /\ ENABLED (/\ Back
                        /\ app_current_step' = app_current_step - 1
                        /\ screen' = ScreenOrder[ScreenIndex(screen) - 1])
            /\ ~ENABLED (/\ Back
                         /\ \/ app_current_step' # app_current_step - 1
                            \/ screen' # ScreenOrder[ScreenIndex(screen) - 1]))

\* The wizard is at its last screen, index N-1, and still running.
C38_Witness ==
    /\ Running
    /\ AtLast
    /\ ~Completed

\* ---------------------------------------------------------------------
\* C32  Every invocation of run_full_installation starts from the first
\* stage, whatever the invocations before it came to: the first stage
\* operation it invokes is that of stage 1 with get_current_step naming
\* it, and the stage operations it has invoked at any point are those of
\* stages 1, 2, ... in order without a gap.  So a run after a run that
\* failed at stage k invokes the stages before k again.
NotRunning == pc \in {"idle", "returned", "raised"}

C32_StartsFromFirst ==
    /\ [][(NotRunning /\ pc' = "in_stage") =>
            /\ i' = 1
            /\ get_current_step' = StepId(1)
            /\ Len(Invoked') = 1
            /\ Invoked'[1].stage = 1]_vars
    /\ [](pc = "in_stage" =>
            /\ Len(Invoked) = i
            /\ \A n \in DOMAIN Invoked : Invoked[n].stage = n)

\* A run failed at stage 2 and the next run is in stage 1 again.
C32_Witness ==
    /\ pc = "in_stage"
    /\ i = 1
    /\ result = False
    /\ FirstFailing = 2
    /\ progress_callback = NoSink

\* ---------------------------------------------------------------------
\* C33  run_disk_setup calls create_partition_table, create_partitions,
\* format_filesystems and mount_filesystems strictly in that order, each
\* call directly preceded by its progress event (0.1, 0.3, 0.6, 0.9, for
\* DISK_SETUP); a sub-operation is called only when all before it returned
\* true; the call ends at the first sub-operation that returns false or
\* raises and returns False, without raising; it returns True only when
\* all four returned true.
DiskCalls == SelectSeq(disk_log, LAMBDA e : e.kind = "call")

SubSucceeded(n) == sub_outcomes[n] = "true"

DiskEnded == disk_pc = DiskReturned

C33_DiskSetupOrder ==
    /\ \A n \in DOMAIN DiskCalls :
          /\ DiskCalls[n].op = n
          /\ DiskCalls[n].status = SubOperations[n]
          /\ \A j \in 1..(n - 1) : SubSucceeded(j)
    /\ \A m \in DOMAIN disk_log :
          disk_log[m].kind = "call" =>
             /\ m > 1
             /\ disk_log[m - 1].kind = "progress"
             /\ disk_log[m - 1].op = disk_log[m].op
             /\ disk_log[m - 1].step = "DISK_SETUP"
             /\ disk_log[m - 1].progress =
                   <<10, 30, 60, 90>>[disk_log[m].op]
             /\ ~disk_log[m - 1].raised
    /\ DiskEnded =>
          /\ disk_result \in {True, False}
          /\ disk_result = True =>
                /\ \A n \in DOMAIN SubOperations : SubSucceeded(n)
                /\ Len(DiskCalls) = Len(SubOperations)
          /\ \A n \in DOMAIN SubOperations :
                (~SubSucceeded(n) /\ Len(DiskCalls) >= n) =>
                    /\ Len(DiskCalls) = n
                    /\ disk_result = False
          /\ ((\A n \in DOMAIN SubOperations : SubSucceeded(n))
              /\ progress_callback = NoSink) => disk_result = True

\* The call ended with False at format_filesystems, which raised, after
\* two sub-operations that succeeded; mount_filesystems was not called.
C33_Witness ==
    /\ DiskEnded
    /\ disk_result = False
    /\ sub_outcomes[1] = "true"
    /\ sub_outcomes[2] = "true"
    /\ sub_outcomes[3] = "raise"
    /\ Len(DiskCalls) = 3

\* ---------------------------------------------------------------------
\* C31  At most one stage operation of a manager is in flight at any time
\* and get_current_step names the stage of every invocation that is in
\* flight, also when run_full_installation is invoked while an earlier
\* invocation is suspended inside a stage.
RunsInFlight == {r \in Runs : runs[r].pc = "in_stage"}

C31_OneInFlight ==
    /\ Cardinality(RunsInFlight) <= 1
    /\ \A r \in RunsInFlight : get_current_step = StepId(runs[r].i)

\* ---------------------------------------------------------------------
\* C34  Every call of run_command ends by returning a triple
\* (code, stdout, stderr) and never by raising, however the exit of the
\* process and the expiry of the timeout interleave: also when the
\* process ends by itself after the timeout has expired and before
\* kill() is called, and when the failure comes before the process
\* handle was created.
CallEnded == cmd_pc = "done" /\ cmd_result # <<>>

C34_AlwaysATriple ==
    CallEnded =>
        /\ cmd_result[1].kind = "return"
        /\ cmd_result[1].code \in Int

====
